---- MODULE Spec2Model ----
(***************************************************************************)
(* Model of the SEO derivation and serialization pipeline of alloy-lab/seo *)
(* (generateSEO, generateMetaTags, generateStructuredData), of the sitemap  *)
(* generator, the framework adapters, the useSEOManager hook, the lazy      *)
(* loader, the Payload afterRead hook and the product schema.              *)
(*                                                                         *)
(* Representation of JavaScript values:                                    *)
(*  - a string is a sequence of TLA+ strings.  Text that comes from the    *)
(*    caller is spelled one character per element; text of a template or  *)
(*    a literal of the source is kept as one element (<<"Website">>), so   *)
(*    that the origin of every piece of an output stays visible.  String   *)
(*    concatenation is \o, the empty string is << >>;                      *)
(*  - the value undefined of a string-typed slot is the sentinel           *)
(*    `undefined`; an optional object that is absent is NoObj;             *)
(*  - an object is a record; a property that is not in the record reads    *)
(*    as undefined (Get), `'k' in obj` is "k" \in DOMAIN obj.              *)
(*  - a call that can throw yields Returned(v) or Thrown(e); a number     *)
(*    with one decimal (a priority) is counted in tenths.                  *)
(***************************************************************************)
EXTENDS Integers, Sequences, FiniteSets, TLC

VARIABLES
  op, args, ret,   \* the exported function being called, its arguments, its outcome
  hook,            \* the state of a mounted useSEOManager hook
  loader,          \* the promises of a preloadFrameworkUtils call
  store            \* the objects and the binding of a createSEOStore store

vars == <<op, args, ret, hook, loader, store>>

----------------------------------------------------------------------------
(* Bounds *)

MaxCrumbs == 2
MaxTextLen == 2

----------------------------------------------------------------------------
(* JavaScript value helpers *)

undefined == <<"#undefined">>

NoObj == [absent |-> TRUE]

\* truthiness of a string-typed value: undefined and '' are falsy
Truthy(v) == v # undefined /\ v # <<>>

\* a || b on string-typed values
Or(a, b) == IF Truthy(a) THEN a ELSE b

\* obj.k
Get(obj, k) == IF k \in DOMAIN obj THEN obj[k] ELSE undefined

\* obj?.k of an optional object
Opt(obj, k) == IF obj = NoObj THEN undefined ELSE Get(obj, k)

\* object-valued property that may be missing
GetObj(obj, k) == IF k \in DOMAIN obj THEN obj[k] ELSE NoObj

\* `${v}` : interpolation of a value in a template literal
Str(v) == IF v = undefined THEN <<"u", "n", "d", "e", "f", "i", "n", "e", "d">> ELSE v

\* s.startsWith(p)
StartsWith(s, p) == Len(s) >= Len(p) /\ SubSeq(s, 1, Len(p)) = p

RECURSIVE Flatten(_)
Flatten(ss) == IF ss = <<>> THEN <<>> ELSE Head(ss) \o Flatten(Tail(ss))

\* arr.join(sep)
RECURSIVE Join(_, _)
Join(ss, sep) ==
  IF ss = <<>> THEN <<>>
  ELSE IF Len(ss) = 1 THEN ss[1]
  ELSE ss[1] \o sep \o Join(Tail(ss), sep)

----------------------------------------------------------------------------
(* JSON values and JSON.stringify(value, null, 2)                          *)
(* A JSON value is a tagged record; a JSON text is a string (see above):   *)
(* punctuation, keys and indentation are template elements, the contents   *)
(* of string values are spelled as they were given.                        *)

JUndef == [t |-> "undef"]
JStr(s) == IF s = undefined THEN JUndef ELSE [t |-> "str", s |-> s]
JNum(n) == [t |-> "num", n |-> n]
JArr(a) == [t |-> "arr", a |-> a]
JObj(m) == [t |-> "obj", m |-> m]
Member(k, v) == [k |-> k, v |-> v]

\* ...(cond && { k: v })
SpreadIf(cond, members) == IF cond THEN members ELSE <<>>

Quote(s) ==
  \* the escapes JSON.stringify applies inside a string
  LET QuoteChar(c) ==
        IF c = "\"" THEN <<"\\", "\"">>
        ELSE IF c = "\\" THEN <<"\\", "\\">>
        ELSE IF c = "\n" THEN <<"\\", "n">>
        ELSE <<c>>
  IN
  <<"\"">> \o Flatten([i \in 1..Len(s) |-> QuoteChar(s[i])]) \o <<"\"">>

Indent(n) == <<"\n">> \o [i \in 1..n |-> "  "]

DigitChars == <<"0", "1", "2", "3", "4", "5", "6", "7", "8", "9">>

RECURSIVE Digits(_)
Digits(n) ==
  IF n < 10 THEN <<DigitChars[n + 1]>>
  ELSE Digits(n \div 10) \o <<DigitChars[(n % 10) + 1]>>

RECURSIVE Stringify(_, _)
Stringify(v, depth) ==
  \* members whose value is undefined are not serialized
  LET Defined(m) == SelectSeq(m, LAMBDA x : x.v # JUndef)
  IN
  IF v.t = "str" THEN Quote(v.s)
  ELSE IF v.t = "num" THEN Digits(v.n)
  ELSE IF v.t = "undef" THEN <<"null">>
  ELSE IF v.t = "arr" THEN
    IF v.a = <<>> THEN <<"[", "]">>
    ELSE <<"[">>
         \o Join([i \in 1..Len(v.a) |-> Indent(depth + 1) \o Stringify(v.a[i], depth + 1)], <<",">>)
         \o Indent(depth) \o <<"]">>
  ELSE
    LET m == Defined(v.m) IN
    IF m = <<>> THEN <<"{", "}">>
    ELSE <<"{">>
         \o Join([i \in 1..Len(m) |->
                    Indent(depth + 1) \o Quote(<<m[i].k>>) \o <<":", " ">>
                    \o Stringify(m[i].v, depth + 1)], <<",">>)
         \o Indent(depth) \o <<"}">>

JSONstringify(v) == Stringify(v, 0)

----------------------------------------------------------------------------
(* JSON.parse: the reader of the JSON text, used to state what a consumer  *)
(* of the structured data obtains                                          *)

Whitespace == {"\n", "  ", " "}
IsDigit(c) == \E d \in 1..10 : DigitChars[d] = c
DigitValue(c) == (CHOOSE d \in 1..10 : DigitChars[d] = c) - 1

ParseError == [ok |-> FALSE]
Parsed(v, next) == [ok |-> TRUE, v |-> v, next |-> next]

RECURSIVE SkipWs(_, _)
SkipWs(text, i) ==
  IF i <= Len(text) /\ text[i] \in Whitespace THEN SkipWs(text, i + 1) ELSE i

\* i is the position after the opening quote
RECURSIVE ParseString(_, _, _)
ParseString(text, i, acc) ==
  IF i > Len(text) THEN ParseError
  ELSE IF text[i] = "\"" THEN Parsed([t |-> "str", s |-> acc], i + 1)
  ELSE IF text[i] = "\\" THEN
    IF i + 1 > Len(text) THEN ParseError
    ELSE IF text[i + 1] \in {"\"", "\\"} THEN ParseString(text, i + 2, Append(acc, text[i + 1]))
    ELSE IF text[i + 1] = "n" THEN ParseString(text, i + 2, Append(acc, "\n"))
    ELSE ParseError
  ELSE IF text[i] = "\n" THEN ParseError
  ELSE ParseString(text, i + 1, Append(acc, text[i]))

RECURSIVE ParseNumber(_, _, _)
ParseNumber(text, i, acc) ==
  IF i <= Len(text) /\ IsDigit(text[i])
  THEN ParseNumber(text, i + 1, acc * 10 + DigitValue(text[i]))
  ELSE Parsed(JNum(acc), i)

RECURSIVE ParseValue(_, _), ParseArrayRest(_, _, _), ParseObjectRest(_, _, _), ParseMember(_, _)

ParseMember(text, i0) ==
  LET i == SkipWs(text, i0) IN
  IF i > Len(text) \/ text[i] # "\"" THEN ParseError
  ELSE LET k == ParseString(text, i + 1, <<>>) IN
       IF ~k.ok THEN ParseError
       ELSE LET j == SkipWs(text, k.next) IN
            IF j > Len(text) \/ text[j] # ":" THEN ParseError
            ELSE LET v == ParseValue(text, j + 1) IN
                 IF ~v.ok THEN ParseError
                 ELSE Parsed(Member(k.v.s, v.v), v.next)

\* after a member: ',' and one more member, or '}'
ParseObjectRest(text, i0, acc) ==
  LET i == SkipWs(text, i0) IN
  IF i > Len(text) THEN ParseError
  ELSE IF text[i] = "}" THEN Parsed(JObj(acc), i + 1)
  ELSE IF text[i] = "," THEN
    LET m == ParseMember(text, i + 1) IN
    IF m.ok THEN ParseObjectRest(text, m.next, Append(acc, m.v)) ELSE ParseError
  ELSE ParseError

\* after an element: ',' and one more element, or ']'
ParseArrayRest(text, i0, acc) ==
  LET i == SkipWs(text, i0) IN
  IF i > Len(text) THEN ParseError
  ELSE IF text[i] = "]" THEN Parsed(JArr(acc), i + 1)
  ELSE IF text[i] = "," THEN
    LET e == ParseValue(text, i + 1) IN
    IF e.ok THEN ParseArrayRest(text, e.next, Append(acc, e.v)) ELSE ParseError
  ELSE ParseError

ParseValue(text, i0) ==
  LET i == SkipWs(text, i0) IN
  IF i > Len(text) THEN ParseError
  ELSE IF text[i] = "\"" THEN ParseString(text, i + 1, <<>>)
  ELSE IF text[i] = "null" THEN Parsed(JUndef, i + 1)
  ELSE IF IsDigit(text[i]) THEN ParseNumber(text, i, 0)
  ELSE IF text[i] = "[" THEN
    LET j == SkipWs(text, i + 1) IN
    IF j <= Len(text) /\ text[j] = "]" THEN Parsed(JArr(<<>>), j + 1)
    ELSE LET e == ParseValue(text, j) IN
         IF e.ok THEN ParseArrayRest(text, e.next, <<e.v>>) ELSE ParseError
  ELSE IF text[i] = "{" THEN
    LET j == SkipWs(text, i + 1) IN
    IF j <= Len(text) /\ text[j] = "}" THEN Parsed(JObj(<<>>), j + 1)
    ELSE LET m == ParseMember(text, j) IN
         IF m.ok THEN ParseObjectRest(text, m.next, <<m.v>>) ELSE ParseError
  ELSE ParseError

JSONparse(text) ==
  LET r == ParseValue(text, 1) IN
  IF r.ok /\ SkipWs(text, r.next) = Len(text) + 1 THEN r ELSE ParseError

\* obj[key] of a parsed object (the last member of that name)
Field(obj, key) ==
  LET S == {i \in 1..Len(obj.m) : obj.m[i].k = key} IN
  IF S = {} THEN JUndef ELSE obj.m[CHOOSE i \in S : \A j \in S : j <= i].v

----------------------------------------------------------------------------
(* Structured data builder (utils/structuredData.ts)                       *)

Website == <<"Website">>
AModernWebsite == <<"A modern website">>
SchemaOrg == <<"https://schema.org">>

\* Object.values(o) of an object given as the ordered list of its entries
ObjectValues(o) == [i \in 1..Len(o.entries) |-> o.entries[i].v]

generateWebsiteSchema(baseUrl, siteSettings) ==
  LET logo == GetObj(siteSettings, "logo")
      socialMedia == GetObj(siteSettings, "socialMedia")
      contactInfo == GetObj(siteSettings, "contactInfo")
      name == Or(Get(siteSettings, "siteName"), Website)
      description == Or(Get(siteSettings, "siteDescription"), AModernWebsite)
  IN JObj(<<
       Member("@context", JStr(SchemaOrg)),
       Member("@type", JStr(<<"WebSite">>)),
       Member("name", JStr(name)),
       Member("description", JStr(description)),
       Member("url", JStr(baseUrl)),
       Member("publisher", JObj(
         << Member("@type", JStr(<<"Organization">>)),
            Member("name", JStr(name)),
            Member("description", JStr(description)),
            Member("url", JStr(baseUrl)) >>
         \o SpreadIf(logo # NoObj,
              << Member("logo", JObj(<< Member("@type", JStr(<<"ImageObject">>)),
                                        Member("url", JStr(Get(logo, "url"))) >>)) >>)
         \o SpreadIf(socialMedia # NoObj,
              << Member("sameAs",
                   JArr([i \in 1..Len(SelectSeq(ObjectValues(socialMedia), Truthy)) |->
                           JStr(SelectSeq(ObjectValues(socialMedia), Truthy)[i])])) >>)
         \o SpreadIf(contactInfo # NoObj,
              << Member("contactPoint", JObj(
                   << Member("@type", JStr(<<"ContactPoint">>)) >>
                   \o SpreadIf(Truthy(Opt(contactInfo, "email")),
                        << Member("email", JStr(Opt(contactInfo, "email"))) >>)
                   \o SpreadIf(Truthy(Opt(contactInfo, "phone")),
                        << Member("telephone", JStr(Opt(contactInfo, "phone"))) >>))) >>))),
       Member("potentialAction", JObj(<<
         Member("@type", JStr(<<"SearchAction">>)),
         Member("target", JObj(<<
           Member("@type", JStr(<<"EntryPoint">>)),
           Member("urlTemplate", JStr(Str(baseUrl) \o <<"/search?q={search_term_string}">>)) >>)),
         Member("query-input", JStr(<<"required name=search_term_string">>)) >>)) >>)

articlePublishedDate_createdAtFirst(page) ==
  Or(Get(page, "createdAt"), Get(page, "publishedDate"))

\* page.publishedDate || page.createdAt
articlePublishedDate(page) ==
  Or(Get(page, "publishedDate"), Get(page, "createdAt"))

\* the page URL built from the slug alone: `${baseUrl}/${page.slug}`
articlePageUrl_noPrefix(baseUrl, page) ==
  Str(baseUrl) \o <<"/">> \o Str(Get(page, "slug"))

\* const pageUrl = `${baseUrl}/pages/${page.slug}`
articlePageUrl(baseUrl, page) ==
  Str(baseUrl) \o <<"/pages/">> \o Str(Get(page, "slug"))

generateArticleSchema(baseUrl, siteSettings, page) ==
  LET pageUrl == articlePageUrl(baseUrl, page)
      publishedDate == articlePublishedDate(page)
      modifiedDate == Get(page, "updatedAt")
      seo == GetObj(page, "seo")
      featuredImage == GetObj(page, "featuredImage")
      logo == GetObj(siteSettings, "logo")
  IN JObj(<<
       Member("@context", JStr(SchemaOrg)),
       Member("@type", JStr(<<"Article">>)),
       Member("headline", JStr(Get(page, "title"))),
       Member("description",
         JStr(Or(Opt(seo, "description"),
              Or(Get(page, "excerpt"),
              Or(Get(siteSettings, "siteDescription"), AModernWebsite))))),
       Member("url", JStr(pageUrl)),
       Member("datePublished", JStr(publishedDate)),
       Member("dateModified", JStr(modifiedDate)),
       Member("author", JObj(<<
         Member("@type", JStr(<<"Organization">>)),
         Member("name", JStr(Or(Get(siteSettings, "siteName"), Website))),
         Member("url", JStr(baseUrl)) >>)),
       Member("publisher", JObj(
         << Member("@type", JStr(<<"Organization">>)),
            Member("name", JStr(Or(Get(siteSettings, "siteName"), Website))),
            Member("url", JStr(baseUrl)) >>
         \o SpreadIf(logo # NoObj,
              << Member("logo", JObj(<< Member("@type", JStr(<<"ImageObject">>)),
                                        Member("url", JStr(Get(logo, "url"))) >>)) >>))),
       Member("mainEntityOfPage", JObj(<<
         Member("@type", JStr(<<"WebPage">>)),
         Member("@id", JStr(pageUrl)) >>)) >>
     \o SpreadIf(featuredImage # NoObj,
          << Member("image", JObj(
               << Member("@type", JStr(<<"ImageObject">>)),
                  Member("url", JStr(Get(featuredImage, "url"))) >>
               \o SpreadIf(Truthy(Get(featuredImage, "alt")),
                    << Member("caption", JStr(Get(featuredImage, "alt"))) >>))) >>)
     \o SpreadIf(Truthy(Opt(seo, "keywords")),
          << Member("keywords", JStr(Opt(seo, "keywords"))) >>))

Http == <<"h", "t", "t", "p">>

\* mutant: position is the 0-based index
generateBreadcrumbSchema_zeroBased(baseUrl, breadcrumbs) ==
  JObj(<<
    Member("@context", JStr(SchemaOrg)),
    Member("@type", JStr(<<"BreadcrumbList">>)),
    Member("itemListElement", JArr([index \in 1..Len(breadcrumbs) |->
      JObj(<<
        Member("@type", JStr(<<"ListItem">>)),
        Member("position", JNum(index - 1)),
        Member("name", JStr(breadcrumbs[index].name)),
        Member("item", JStr(IF StartsWith(breadcrumbs[index].url, Http)
                            THEN breadcrumbs[index].url
                            ELSE Str(baseUrl) \o Str(breadcrumbs[index].url))) >>)])) >>)

generateBreadcrumbSchema(baseUrl, breadcrumbs) ==
  JObj(<<
    Member("@context", JStr(SchemaOrg)),
    Member("@type", JStr(<<"BreadcrumbList">>)),
    Member("itemListElement", JArr([index \in 1..Len(breadcrumbs) |->
      JObj(<<
        Member("@type", JStr(<<"ListItem">>)),
        Member("position", JNum(index)),  \* index + 1 of the 0-based index
        Member("name", JStr(breadcrumbs[index].name)),
        Member("item", JStr(IF StartsWith(breadcrumbs[index].url, Http)
                            THEN breadcrumbs[index].url
                            ELSE Str(baseUrl) \o Str(breadcrumbs[index].url))) >>)])) >>)

\* breadcrumbs is undefined (NoCrumbs) or a list
NoCrumbs == <<NoObj>>

\* mutant: the breadcrumb schema is pushed for an empty list too
generateStructuredData_noLengthCheck(config) ==
  LET baseUrl == config.baseUrl
      siteSettings == config.siteSettings
      page == config.page
      breadcrumbs == config.breadcrumbs
      structuredData ==
        << generateWebsiteSchema(baseUrl, siteSettings) >>
        \o (IF page # NoObj
            THEN << generateArticleSchema(baseUrl, siteSettings, page) >>
            ELSE <<>>)
        \o (IF breadcrumbs # NoCrumbs
            THEN << generateBreadcrumbSchema(baseUrl, breadcrumbs) >>
            ELSE <<>>)
  IN JSONstringify(JArr(structuredData))

generateStructuredData(config) ==
  LET baseUrl == config.baseUrl
      siteSettings == config.siteSettings
      page == config.page
      breadcrumbs == config.breadcrumbs
      structuredData ==
        << generateWebsiteSchema(baseUrl, siteSettings) >>
        \o (IF page # NoObj
            THEN << generateArticleSchema(baseUrl, siteSettings, page) >>
            ELSE <<>>)
        \o (IF breadcrumbs # NoCrumbs /\ Len(breadcrumbs) > 0
            THEN << generateBreadcrumbSchema(baseUrl, breadcrumbs) >>
            ELSE <<>>)
  IN JSONstringify(JArr(structuredData))

----------------------------------------------------------------------------
(* SEO-data deriver (utils/seo.ts, generateSEO)                            *)

baseTitle(siteSettings) == Or(Get(siteSettings, "siteName"), Website)

baseDescription(siteSettings) == Or(Get(siteSettings, "siteDescription"), AModernWebsite)

\* the guard of the page branch: type === 'page' && 'title' in data
isPageBranch(data, type) == type = "page" /\ "title" \in DOMAIN data

\* mutant: the override page.seo.title is not consulted
seoTitle_noOverride(data, siteSettings, type) ==
  LET title == IF isPageBranch(data, type)
               THEN Str(Get(data, "title")) \o <<" | ">> \o baseTitle(siteSettings)
               ELSE baseTitle(siteSettings)
  IN Or(title, Website)

seoTitle(data, siteSettings, type) ==
  LET title == IF isPageBranch(data, type)
               THEN Or(Opt(GetObj(data, "seo"), "title"),
                       Str(Get(data, "title")) \o <<" | ">> \o baseTitle(siteSettings))
               ELSE baseTitle(siteSettings)
  IN Or(title, Website)

\* mutant: ?? in place of ||, so that an empty string is kept
seoDescription_nullish(data, siteSettings, type) ==
  LET Nullish(a, b) == IF a = undefined THEN b ELSE a
      description == IF isPageBranch(data, type)
                     THEN Nullish(Opt(GetObj(data, "seo"), "description"),
                          Nullish(Get(data, "excerpt"), baseDescription(siteSettings)))
                     ELSE baseDescription(siteSettings)
  IN Nullish(description, AModernWebsite)

\* mutant: the excerpt is preferred to page.seo.description
seoDescription_excerptFirst(data, siteSettings, type) ==
  LET description == IF isPageBranch(data, type)
                     THEN Or(Get(data, "excerpt"),
                          Or(Opt(GetObj(data, "seo"), "description"), baseDescription(siteSettings)))
                     ELSE baseDescription(siteSettings)
  IN Or(description, AModernWebsite)

seoDescription(data, siteSettings, type) ==
  LET description == IF isPageBranch(data, type)
                     THEN Or(Opt(GetObj(data, "seo"), "description"),
                          Or(Get(data, "excerpt"), baseDescription(siteSettings)))
                     ELSE baseDescription(siteSettings)
  IN Or(description, AModernWebsite)

seoKeywords(data, type) ==
  IF isPageBranch(data, type) THEN Opt(GetObj(data, "seo"), "keywords") ELSE undefined

seoImage(data, type) ==
  IF isPageBranch(data, type)
  THEN LET img == Or(Opt(GetObj(GetObj(data, "seo"), "image"), "url"),
                     Opt(GetObj(data, "featuredImage"), "url"))
       IN img
  ELSE undefined

\* mutant: the page URL is built whenever data has a slug, whatever the type
seoUrl_slugOnly(data, type, baseUrl) ==
  IF "slug" \in DOMAIN data
  THEN Str(baseUrl) \o <<"/pages/">> \o Str(data.slug)
  ELSE baseUrl

seoUrl(data, type, baseUrl) ==
  IF type = "page" /\ "slug" \in DOMAIN data
  THEN Str(baseUrl) \o <<"/pages/">> \o Str(data.slug)
  ELSE baseUrl

seoType(type) == IF type = "home" THEN <<"website">> ELSE <<"article">>

\* mutant: data is passed as the page whatever the type
seoStructuredData_pageAlways(data, siteSettings, type, baseUrl, breadcrumbs) ==
  IF Truthy(baseUrl)
  THEN generateStructuredData([baseUrl |-> baseUrl,
                               siteSettings |-> siteSettings,
                               page |-> data,
                               breadcrumbs |-> breadcrumbs])
  ELSE undefined

seoStructuredData(data, siteSettings, type, baseUrl, breadcrumbs) ==
  IF Truthy(baseUrl)
  THEN generateStructuredData([baseUrl |-> baseUrl,
                               siteSettings |-> siteSettings,
                               page |-> IF type = "page" THEN data ELSE NoObj,
                               breadcrumbs |-> breadcrumbs])
  ELSE undefined

\* the default of the parameter: type = 'home' when the argument is omitted
NoType == "omitted"
generateSEO(data, siteSettings, typeArg, baseUrl, breadcrumbs) ==
  LET type == IF typeArg = NoType THEN "home" ELSE typeArg IN
  [title |-> seoTitle(data, siteSettings, type),
   description |-> seoDescription(data, siteSettings, type),
   keywords |-> seoKeywords(data, type),
   image |-> seoImage(data, type),
   url |-> seoUrl(data, type, baseUrl),
   type |-> seoType(type),
   structuredData |-> seoStructuredData(data, siteSettings, type, baseUrl, breadcrumbs)]

----------------------------------------------------------------------------
(* Meta-tag renderer (utils/seo.ts, generateMetaTags and escapeHtml)       *)

\* text.replace(/c/g, r)
ReplaceAll(text, c, r) == Flatten([i \in 1..Len(text) |-> IF text[i] = c THEN r ELSE <<text[i]>>])

escapeHtml(text) ==
  ReplaceAll(
    ReplaceAll(
      ReplaceAll(
        ReplaceAll(
          ReplaceAll(text, "&", <<"&", "a", "m", "p", ";">>),
          "<", <<"&", "l", "t", ";">>),
        ">", <<"&", "g", "t", ";">>),
      "\"", <<"&", "q", "u", "o", "t", ";">>),
    "'", <<"&", "#", "3", "9", ";">>)

\* the templates of the tags: the text before and after the embedded value
MetaEnd == "\" />"
MetaName(n) == "<meta name=\"" \o n \o "\" content=\""
MetaProperty(n) == "<meta property=\"" \o n \o "\" content=\""

Tag(open, content, close) == <<open>> \o content \o <<close>>

headTags(seo) ==
  LET TitleOpen == "<title>"
      TitleClose == "</title>"
  IN
  << Tag(TitleOpen, escapeHtml(seo.title), TitleClose),
     Tag(MetaName("description"), escapeHtml(seo.description), MetaEnd) >>

\* mutant: keywords tested against undefined only
keywordsTags_definedCheck(seo) ==
  IF seo.keywords # undefined
  THEN << Tag(MetaName("keywords"), escapeHtml(seo.keywords), MetaEnd) >>
  ELSE <<>>

keywordsTags(seo) ==
  IF Truthy(seo.keywords)
  THEN << Tag(MetaName("keywords"), escapeHtml(seo.keywords), MetaEnd) >>
  ELSE <<>>

openGraphTags(seo) ==
  << Tag(MetaProperty("og:title"), escapeHtml(seo.title), MetaEnd),
     Tag(MetaProperty("og:description"), escapeHtml(seo.description), MetaEnd),
     Tag(MetaProperty("og:type"), Or(seo.type, <<"website">>), MetaEnd) >>

urlTags(seo) ==
  IF Truthy(seo.url)
  THEN << Tag(MetaProperty("og:url"), escapeHtml(seo.url), MetaEnd) >>
  ELSE <<>>

imageTags(seo) ==
  IF Truthy(seo.image)
  THEN << Tag(MetaProperty("og:image"), escapeHtml(seo.image), MetaEnd),
          Tag(MetaName("twitter:card"), <<"summary_large_image">>, MetaEnd),
          Tag(MetaName("twitter:image"), escapeHtml(seo.image), MetaEnd) >>
  ELSE <<>>

twitterTags(seo) ==
  << Tag(MetaName("twitter:title"), escapeHtml(seo.title), MetaEnd),
     Tag(MetaName("twitter:description"), escapeHtml(seo.description), MetaEnd) >>

TagSeparator == <<"\n    ">>

\* mutant: the image tags are pushed before og:url
generateMetaTags_imageBeforeUrl(seo) ==
  LET tags == headTags(seo) \o keywordsTags(seo) \o openGraphTags(seo)
              \o imageTags(seo) \o urlTags(seo) \o twitterTags(seo)
  IN Join(tags, TagSeparator)

generateMetaTags(seo) ==
  LET tags == headTags(seo) \o keywordsTags(seo) \o openGraphTags(seo)
              \o urlTags(seo) \o imageTags(seo) \o twitterTags(seo)
  IN Join(tags, TagSeparator)

----------------------------------------------------------------------------
(* Inputs *)

OptText(v) == {undefined, <<>>, v}

Media(url, alt) ==
  [id |-> <<"m">>, url |-> url, alt |-> alt,
   createdAt |-> <<"2024-01-01">>, updatedAt |-> <<"2024-01-01">>]

Logo == Media(<<"l">>, undefined)
FeaturedImage == Media(<<"f">>, <<"c", "\"">>)
SeoImage == Media(<<"i">>, undefined)

\* a Page record
Page(title, slug, excerpt, featuredImage, seo, publishedDate) ==
  [id |-> <<"1">>, title |-> title, slug |-> slug, status |-> <<"published">>,
   excerpt |-> excerpt, featuredImage |-> featuredImage, seo |-> seo,
   publishedDate |-> publishedDate, createdAt |-> <<"2024-01-01">>,
   updatedAt |-> <<"2024-01-02">>]

SEOFields(title, description, keywords, image) ==
  [title |-> title, description |-> description, keywords |-> keywords,
   image |-> image, noIndex |-> FALSE]

\* the pages handed to generateSEO: every combination of absent, empty and
\* present text fields of the fallback chains, and the image combinations
PageSet ==
  {Page(t, <<"s">>, e, NoObj, seo, undefined) :
     t \in {<<>>, <<"T">>}, e \in OptText(<<"e">>),
     seo \in {NoObj} \cup {SEOFields(st, sd, k, NoObj) :
                st \in OptText(<<"S">>), sd \in OptText(<<"D">>), k \in {undefined, <<"k">>}}}
  \cup
  {Page(<<"T">>, <<"s">>, undefined, f, seo, undefined) :
     f \in {NoObj, FeaturedImage},
     seo \in {NoObj} \cup {SEOFields(undefined, undefined, undefined, i) : i \in {NoObj, SeoImage}}}

\* the pages handed to generateStructuredData
ArticlePageSet ==
  {Page(<<"T", "\"">>, <<"s">>, e, fp[1], seo, fp[2]) :
     e \in {undefined, <<"e">>},
     fp \in {<<NoObj, undefined>>, <<NoObj, <<>>>>, <<FeaturedImage, <<"2024-01-03">>>>},
     seo \in {NoObj, SEOFields(undefined, <<"D">>, <<"k">>, NoObj),
              SEOFields(undefined, <<>>, <<>>, NoObj)}}

SiteSettings(siteName, siteDescription, logo, socialMedia, contactInfo) ==
  [siteName |-> siteName, siteDescription |-> siteDescription, logo |-> logo,
   socialMedia |-> socialMedia, contactInfo |-> contactInfo]

FullSiteSettings ==
  LET ContactInfo == [email |-> <<"e", "@", "x">>, phone |-> <<>>, address |-> undefined]
      SocialMedia ==
        [entries |-> << [k |-> "twitter", v |-> <<"@", "a">>],
                        [k |-> "facebook", v |-> <<>>],
                        [k |-> "youtube", v |-> <<"y", "\\">>] >>]
  IN
  SiteSettings(<<"N", "\"">>, <<"A", "\n">>, Logo, SocialMedia, ContactInfo)

SiteSettingsSet ==
  {SiteSettings(n, d, NoObj, NoObj, NoObj) : n \in OptText(<<"N">>), d \in OptText(<<"A">>)}

ArticleSiteSettingsSet ==
  {SiteSettings(undefined, undefined, NoObj, NoObj, NoObj),
   SiteSettings(<<"N">>, <<>>, Logo, NoObj, NoObj),
   FullSiteSettings}

\* breadcrumbs: relative and absolute urls, a url that only begins like
\* 'http', names with characters that JSON must escape
Crumb(name, url) == [name |-> name, url |-> url]
\* all lists of at most n elements of S
RECURSIVE SeqsUpTo(_, _)
SeqsUpTo(S, n) ==
  IF n = 0 THEN {<<>>}
  ELSE LET shorter == SeqsUpTo(S, n - 1)
       IN shorter \cup {Append(q, x) : q \in {r \in shorter : Len(r) = n - 1}, x \in S}

BreadcrumbsSet ==
  LET Crumbs ==
        { Crumb(<<"n">>, <<"/", "a">>),
          Crumb(<<"\"", "\\">>, Http \o <<":", "/", "/", "x">>),
          Crumb(<<"n">>, <<"h", "t", "t">>),
          Crumb(<<"\"", "\\">>, <<"/", "a">>) }
  IN
  {NoCrumbs} \cup SeqsUpTo(Crumbs, MaxCrumbs)

\* the breadcrumbs handed to generateSEO
SeoBreadcrumbsSet == {NoCrumbs, << Crumb(<<"n">>, <<"/", "a">>) >>}

TextSet ==
  LET Alphabet == {"a", "&", "<", ">", "\"", "'"}
  IN
  SeqsUpTo(Alphabet, MaxTextLen)

SEODataSet ==
  \* SEOData records: every combination of present and absent optional fields,
  \* and one field holding an arbitrary text
  LET SEODataBase ==
        [title : {<<"t">>}, description : {<<"d">>}, keywords : {undefined, <<"k">>},
         image : {undefined, <<"i">>}, url : {undefined, <<"u">>},
         type : {undefined, <<"y">>}, structuredData : {undefined}]
      SEODataFields == {"title", "description", "keywords", "image", "url", "type"}
  IN
  {[b EXCEPT ![f] = x] : b \in SEODataBase, f \in SEODataFields, x \in TextSet}

----------------------------------------------------------------------------
(* Sitemap: generateSitemapUrls and generateSitemapXML                     *)

MaxPages == 2

\* the outcome of a call that can throw
Returned(v) == [ok |-> TRUE, value |-> v]
Thrown(e) == [ok |-> FALSE, error |-> e]

\* date strings of the model: '2024-01-0n' and '2024-01-0nT00:00:00.000Z'
DateOnly(n) == <<"2024-01-0", DigitChars[n + 1]>>
IsoDate(n) == DateOnly(n) \o <<"T00:00:00.000Z">>

\* the time value of an invalid date
NaN == -1

\* new Date(s): the time value (here the day of January 2024) of a date
\* string, NaN when the string is not a date
NewDate(s) ==
  IF /\ s # undefined
     /\ Len(s) \in {2, 3}
     /\ s[1] = "2024-01-0"
     /\ IsDigit(s[2])
     /\ Len(s) = 3 => s[3] = "T00:00:00.000Z"
  THEN DigitValue(s[2]) ELSE NaN

\* Date.prototype.toISOString: a RangeError for an invalid date
toISOString(t) ==
  IF t = NaN THEN Thrown(<<"RangeError: Invalid time value">>) ELSE Returned(IsoDate(t))

shouldIncludePage_ignoreNoIndex(page) ==
  /\ Truthy(page.slug)
  /\ page.status = <<"published">>

shouldIncludePage(page) ==
  \* page.seo?.noIndex
  LET noIndex ==
        IF page.seo = NoObj \/ "noIndex" \notin DOMAIN page.seo THEN FALSE ELSE page.seo.noIndex
  IN
  /\ Truthy(page.slug)
  /\ page.status = <<"published">>
  /\ ~noIndex

\* a destructured configuration key with its default value
Default(config, k, d) == IF k \in DOMAIN config THEN config[k] ELSE d

SitemapUrl(loc, lastmod, changefreq, priority) ==
  [loc |-> loc, lastmod |-> lastmod, changefreq |-> changefreq, priority |-> priority]

\* priorities are counted in tenths: 10 is 1.0 and 8 is 0.8
DefaultHomepagePriority == 10
DefaultPagePriority == 8

pageLastmod_publishedDateFirst(page, now) == Or(page.publishedDate, Or(page.updatedAt, now))

\* page.updatedAt || page.publishedDate || now
pageLastmod(page, now) == Or(page.updatedAt, Or(page.publishedDate, now))

\* the pages.forEach loop from page i on, urls being the entries pushed so far
RECURSIVE pushPages(_, _, _, _, _)
pushPages(pages, i, urls, now, config) ==
  IF i > Len(pages) THEN Returned(urls)
  ELSE IF ~shouldIncludePage(pages[i]) THEN pushPages(pages, i + 1, urls, now, config)
  ELSE LET page == pages[i]
           baseUrl == Default(config, "baseUrl", <<>>)
           lastmod == toISOString(NewDate(pageLastmod(page, now)))
       IN IF ~lastmod.ok THEN lastmod
          ELSE pushPages(pages, i + 1,
                 Append(urls, SitemapUrl(baseUrl \o <<"/pages/">> \o page.slug,
                                         lastmod.value,
                                         Default(config, "defaultChangefreq", <<"weekly">>),
                                         Default(config, "pagePriority", DefaultPagePriority))),
                 now, config)

generateSitemapUrls_homepageLast(pages, now, config) ==
  LET rest == pushPages(pages, 1, <<>>, now, config)
      home == SitemapUrl(Default(config, "baseUrl", <<>>), now, <<"daily">>,
                         Default(config, "homepagePriority", DefaultHomepagePriority))
  IN IF rest.ok /\ Default(config, "includeHomepage", TRUE)
     THEN Returned(Append(rest.value, home)) ELSE rest

\* now is the clock reading of the call, already in ISO form
generateSitemapUrls(pages, now, config) ==
  LET home == SitemapUrl(Default(config, "baseUrl", <<>>), now, <<"daily">>,
                         Default(config, "homepagePriority", DefaultHomepagePriority))
      urls == IF Default(config, "includeHomepage", TRUE) THEN <<home>> ELSE <<>>
  IN pushPages(pages, 1, urls, now, config)

\* pages of every eligibility, with dates of every form
SitemapPage(slug, status, seo, updatedAt, publishedDate) ==
  [Page(<<"T">>, slug, undefined, NoObj, seo, publishedDate)
     EXCEPT !.status = status, !.updatedAt = updatedAt]

NoIndexSeo(b) == [SEOFields(undefined, undefined, undefined, NoObj) EXCEPT !.noIndex = b]

SitemapPageSet ==
  { SitemapPage(<<"s">>, <<"published">>, NoObj, DateOnly(2), undefined),
    SitemapPage(<<"t", "&">>, <<"published">>, NoIndexSeo(FALSE), <<>>, IsoDate(3)),
    SitemapPage(<<"u">>, <<"published">>, NoObj, <<>>, undefined),
    SitemapPage(<<"d">>, <<"draft">>, NoObj, <<"n", "o">>, undefined),
    SitemapPage(<<"n">>, <<"published">>, NoIndexSeo(TRUE), DateOnly(2), undefined),
    SitemapPage(<<>>, <<"published">>, NoObj, DateOnly(2), undefined),
    SitemapPage(<<"m">>, <<"published">>, NoObj, <<"n", "o">>, DateOnly(4)),
    SitemapPage(<<"v">>, <<"published">>, NoObj, IsoDate(5), DateOnly(6)) }

\* configurations with every subset of the keys supplied
SitemapConfigSet ==
  LET FullSitemapConfigs ==
        [baseUrl : {<<"b">>}, includeHomepage : BOOLEAN, homepagePriority : {5},
         pagePriority : {3}, defaultChangefreq : {<<"monthly">>}]
      SitemapConfigKeys ==
        {"baseUrl", "includeHomepage", "homepagePriority", "pagePriority", "defaultChangefreq"}
  IN
  {[k \in K |-> c[k]] : c \in FullSitemapConfigs, K \in SUBSET SitemapConfigKeys}

escapeXml_ampersandLast(text) ==
  ReplaceAll(
    ReplaceAll(
      ReplaceAll(
        ReplaceAll(
          ReplaceAll(text, "<", <<"&", "l", "t", ";">>),
          ">", <<"&", "g", "t", ";">>),
        "\"", <<"&", "q", "u", "o", "t", ";">>),
      "'", <<"&", "#", "3", "9", ";">>),
    "&", <<"&", "a", "m", "p", ";">>)

escapeXml(text) ==
  ReplaceAll(
    ReplaceAll(
      ReplaceAll(
        ReplaceAll(
          ReplaceAll(text, "&", <<"&", "a", "m", "p", ";">>),
          "<", <<"&", "l", "t", ";">>),
        ">", <<"&", "g", "t", ";">>),
      "\"", <<"&", "q", "u", "o", "t", ";">>),
    "'", <<"&", "#", "3", "9", ";">>)

generateSitemapXML(urls) ==
  LET UrlBlock(url) ==
        \* `${n}` of a priority: 10 tenths is '1', 8 tenths is '0.8'
        LET NumberText(tenths) ==
              IF tenths % 10 = 0 THEN Digits(tenths \div 10)
              ELSE Digits(tenths \div 10) \o <<".">> \o Digits(tenths % 10)
        IN
        <<"  <url>\n">>
        \o <<"    <loc>">> \o escapeXml(url.loc) \o <<"</loc>\n">>
        \o <<"    <lastmod>">> \o url.lastmod \o <<"</lastmod>\n">>
        \o <<"    <changefreq>">> \o url.changefreq \o <<"</changefreq>\n">>
        \o <<"    <priority>">> \o NumberText(url.priority) \o <<"</priority>\n">>
        \o <<"  </url>\n">>
  IN
  <<"<?xml version=\"1.0\" encoding=\"UTF-8\"?>\n">>
  \o <<"<urlset xmlns=\"http://www.sitemaps.org/schemas/sitemap/0.9\">\n">>
  \o Flatten([i \in 1..Len(urls) |-> UrlBlock(urls[i])])
  \o <<"</urlset>">>

\* short lists of a few entries, and single entries with a loc of every
\* short text
SitemapUrlsSet ==
  LET few == { SitemapUrl(<<"b">>, IsoDate(9), <<"daily">>, 10),
               SitemapUrl(<<"b", "/pages/", "s", "&">>, IsoDate(2), <<"weekly">>, 8),
               SitemapUrl(<<"/pages/", "<", "t">>, IsoDate(3), <<"monthly">>, 3) }
  IN SeqsUpTo(few, MaxPages)
     \cup {<<SitemapUrl(loc, IsoDate(9), <<"daily">>, p)>> : loc \in TextSet, p \in {10, 8, 3}}

----------------------------------------------------------------------------
(* Framework adapters: useSEO, generateSEOData, generateMetadata           *)

\* {...a, ...b}
Spread(a, b) == [k \in DOMAIN a \cup DOMAIN b |-> IF k \in DOMAIN b THEN b[k] ELSE a[k]]

\* {}
EmptyObj == <<>>

\* the destructuring of the options bag and the generateSEO call the three
\* adapters share: data = page || siteSettings, type = 'home' by default
derivedSEO(options) ==
  LET page == Default(options, "page", NoObj)
      data == IF page # NoObj THEN page ELSE options.siteSettings
  IN generateSEO(data, options.siteSettings, Default(options, "type", "home"),
                 Default(options, "baseUrl", undefined),
                 Default(options, "breadcrumbs", NoCrumbs))

\* generateMetaTags called with any record: escapeHtml(undefined) is a
\* TypeError, and title and description are escaped unconditionally
metaTagsOf(seo) ==
  IF seo.title = undefined \/ seo.description = undefined
  THEN Thrown(<<"TypeError: Cannot read properties of undefined (reading 'replace')">>)
  ELSE Returned(generateMetaTags(seo))

useSEO_overridesFirst(options) ==
  LET seo == Spread(Default(options, "overrides", EmptyObj), derivedSEO(options))
      metaTags == metaTagsOf(seo)
  IN IF ~metaTags.ok THEN metaTags
     ELSE Returned([seo |-> seo, metaTags |-> metaTags.value,
                    title |-> seo.title, description |-> seo.description,
                    keywords |-> seo.keywords, image |-> seo.image, url |-> seo.url,
                    type |-> Or(seo.type, <<"website">>),
                    structuredData |-> seo.structuredData])

useSEO(options) ==
  LET seo == Spread(derivedSEO(options), Default(options, "overrides", EmptyObj))
      metaTags == metaTagsOf(seo)
  IN IF ~metaTags.ok THEN metaTags
     ELSE Returned([seo |-> seo, metaTags |-> metaTags.value,
                    title |-> seo.title, description |-> seo.description,
                    keywords |-> seo.keywords, image |-> seo.image, url |-> seo.url,
                    type |-> Or(seo.type, <<"website">>),
                    structuredData |-> seo.structuredData])

\* SvelteKit
generateSEOData(options) ==
  Returned(Spread(derivedSEO(options), Default(options, "overrides", EmptyObj)))

\* Next.js
generateMetadata(options) ==
  LET seo == derivedSEO(options)
      metadata ==
        [title |-> seo.title, description |-> seo.description, keywords |-> seo.keywords,
         openGraph |-> [title |-> seo.title, description |-> seo.description,
                        type |-> seo.type, url |-> seo.url,
                        images |-> IF Truthy(seo.image) THEN <<[url |-> seo.image]>>
                                   ELSE undefined],
         twitter |-> [card |-> <<"summary_large_image">>, title |-> seo.title,
                      description |-> seo.description,
                      images |-> IF Truthy(seo.image) THEN <<seo.image>> ELSE undefined],
         alternates |-> [canonical |-> seo.url]]
  IN Returned(Spread(metadata, Default(options, "overrides", EmptyObj)))

\* overrides: every subset of three keys, each key undefined, empty or a text
OverridesSet ==
  LET values == {undefined, <<>>, <<"O", "&">>}
  IN UNION {[K -> values] : K \in SUBSET {"title", "description", "type"}}

\* option bags with every subset of the optional keys
OptionsSet ==
  LET page == Page(<<"T">>, <<"s">>, <<"e">>, FeaturedImage, NoObj, undefined)
  IN { Spread(Spread(Spread(Spread([siteSettings |-> s], p), t), b), o) :
         s \in {FullSiteSettings, SiteSettings(undefined, undefined, NoObj, NoObj, NoObj)},
         p \in {EmptyObj, [page |-> page]},
         t \in {EmptyObj, [type |-> "page"]},
         b \in {EmptyObj, [baseUrl |-> <<"b">>, breadcrumbs |-> <<Crumb(<<"n">>, <<"/", "a">>)>>]},
         o \in {EmptyObj} \cup {[overrides |-> v] : v \in OverridesSet} }

----------------------------------------------------------------------------
(* useSEOManager: a hook holding options and accumulated overrides         *)

MaxUpdates == 2

mergeSeoData_replace(prev, updates) == updates

\* setSeoData(prev => ({...prev, ...updates})), prev being null at first
mergeSeoData(prev, updates) == Spread(IF prev = NoObj THEN EmptyObj ELSE prev, updates)

\* the record the hook exposes in a render: useSEO of the options, with
\* seoData as overrides once seoData is not null
managerSEO(h) ==
  useSEO(Spread(h.options,
                IF h.seoData # NoObj THEN [overrides |-> h.seoData] ELSE EmptyObj))

ManagerInitialOptionsSet ==
  { [siteSettings |-> FullSiteSettings],
    [siteSettings |-> FullSiteSettings, baseUrl |-> <<"b">>,
     overrides |-> [title |-> <<"I">>]],
    [siteSettings |-> SiteSettings(undefined, undefined, NoObj, NoObj, NoObj),
     type |-> "page"] }

SeoUpdateSet ==
  { [title |-> <<"O", "&">>], [title |-> <<>>, description |-> <<"D">>],
    [description |-> <<"E">>], [keywords |-> <<"k">>] }

OptionsUpdateSet ==
  { [page |-> Page(<<"T">>, <<"s">>, <<"e">>, NoObj, NoObj, undefined), type |-> "page"],
    [type |-> "home"],
    [overrides |-> [description |-> <<"X">>]] }

----------------------------------------------------------------------------
(* Lazy loading: lazyLoadFrameworkUtils and preloadFrameworkUtils          *)

MaxFrameworks == 2

\* the utilities each case of the switch returns once its import has loaded
FrameworkUtils(framework) ==
  CASE framework = "react" -> {"useSEO", "useSEOManager"}
    [] framework = "nextjs" -> {"generateMetadata", "generateStructuredDataScript", "withSEO"}
    [] framework = "sveltekit" ->
         {"generateSEOData", "generateSvelteKitMetaTags", "createSEOLoader",
          "createPageSEOLoader", "createSEOStore"}

lazyLoadFrameworkUtils_defaultUndefined(framework) ==
  IF framework \in {"react", "nextjs", "sveltekit"}
  THEN [state |-> "pending"]
  ELSE [state |-> "fulfilled", value |-> {}]

\* the promise lazyLoadFrameworkUtils returns: pending on its import for the
\* three cases, already rejected by the throw of the default case
lazyLoadFrameworkUtils(framework) ==
  IF framework \in {"react", "nextjs", "sveltekit"}
  THEN [state |-> "pending"]
  ELSE [state |-> "rejected", reason |-> <<"Unknown framework: ", framework>>]

----------------------------------------------------------------------------
(* Payload hooks: seoHooks.afterRead                                       *)

\* req.payload?.config?.globals?.site?.[k]
siteGlobal(payload, k) ==
  IF payload.config = NoObj THEN undefined
  ELSE IF payload.config.globals = NoObj THEN undefined
  ELSE IF payload.config.globals.site = NoObj THEN undefined
  ELSE Get(payload.config.globals.site, k)

\* the body of the try block: the computed SEO data, or the error thrown.
\* `'title' in doc` is a TypeError for a doc that is not an object, and
\* the assignment to a frozen doc is a TypeError in module (strict) code
computeSEO(doc, req, env) ==
  LET siteSettings == [siteName |-> Or(siteGlobal(req.payload, "title"), <<"Site">>),
                       siteDescription |-> Or(siteGlobal(req.payload, "description"),
                                              <<"A website">>)]
  IN IF doc.kind = "primitive"
     THEN Thrown(<<"TypeError: Cannot use 'in' operator">>)
     ELSE IF doc.frozen
     THEN Thrown(<<"TypeError: Cannot add property computedSEO, object is not extensible">>)
     ELSE Returned(generateSEO(doc.fields, siteSettings, "page",
                               Or(env.SITE_URL, <<"https://example.com">>), NoCrumbs))

afterRead_noCatch(doc, req, env) ==
  IF doc.kind # "absent" /\ req.payload # NoObj
  THEN LET seoData == computeSEO(doc, req, env)
       IN IF seoData.ok
          THEN [thrown |-> FALSE, logged |-> FALSE,
                doc |-> [doc EXCEPT !.fields = Spread(@, [computedSEO |-> seoData.value])]]
          ELSE [thrown |-> TRUE, logged |-> FALSE, doc |-> doc]
  ELSE [thrown |-> FALSE, logged |-> FALSE, doc |-> doc]

\* the hook: the doc after the call, whether console.warn was called, and
\* whether an error left the hook
afterRead(doc, req, env) ==
  IF doc.kind # "absent" /\ req.payload # NoObj
  THEN LET seoData == computeSEO(doc, req, env)
       IN IF seoData.ok
          THEN [thrown |-> FALSE, logged |-> FALSE,
                doc |-> [doc EXCEPT !.fields = Spread(@, [computedSEO |-> seoData.value])]]
          ELSE [thrown |-> FALSE, logged |-> TRUE, doc |-> doc]
  ELSE [thrown |-> FALSE, logged |-> FALSE, doc |-> doc]

----------------------------------------------------------------------------
(* Product schema: generateProductSchema                                   *)

generateProductSchema(baseUrl, product) ==
  \* truthiness of an optional number: absent and 0 are falsy
  LET TruthyNumber(obj, k) == k \in DOMAIN obj /\ obj[k] # 0
  IN
  JObj(<<
    Member("@context", JStr(SchemaOrg)),
    Member("@type", JStr(<<"Product">>)),
    Member("name", JStr(Get(product, "name"))),
    Member("description", JStr(Get(product, "description"))),
    Member("url", JStr(baseUrl)) >>
  \o SpreadIf(Truthy(Get(product, "image")),
       << Member("image", JStr(Get(product, "image"))) >>)
  \o SpreadIf(TruthyNumber(product, "price") /\ Truthy(Get(product, "currency")),
       << Member("offers", JObj(<<
            Member("@type", JStr(<<"Offer">>)),
            Member("price", JNum(product.price)),
            Member("priceCurrency", JStr(product.currency)),
            Member("availability",
              JStr(Or(Get(product, "availability"),
                      <<"https://schema.org/InStock">>))) >>)) >>))

\* products with every subset of the optional keys, the price 0 included
ProductSet ==
  { Spread(Spread(Spread(Spread([name |-> <<"n">>, description |-> <<"d">>], i), p), c), a) :
      i \in {EmptyObj, [image |-> <<>>], [image |-> <<"i">>]},
      p \in {EmptyObj, [price |-> 0], [price |-> 5]},
      c \in {EmptyObj, [currency |-> <<>>], [currency |-> <<"USD">>]},
      a \in {EmptyObj, [availability |-> <<>>], [availability |-> <<"PreOrder">>]} }

----------------------------------------------------------------------------
(* Payload hooks: seoHooks.beforeChange                                    *)

UpperCaseLetters == <<"A", "B", "C", "D", "E", "F", "G", "H", "I", "J", "K", "L", "M", "N", "O", "P", "Q", "R", "S", "T", "U", "V", "W", "X", "Y", "Z">>
LowerCaseLetters == <<"a", "b", "c", "d", "e", "f", "g", "h", "i", "j", "k", "l", "m", "n", "o", "p", "q", "r", "s", "t", "u", "v", "w", "x", "y", "z">>

\* text.toLowerCase()
toLowerCase(text) ==
  [i \in 1..Len(text) |->
     IF \E n \in 1..26 : UpperCaseLetters[n] = text[i]
     THEN LowerCaseLetters[CHOOSE n \in 1..26 : UpperCaseLetters[n] = text[i]]
     ELSE text[i]]

WhitespaceChars == {" ", "\t", "\n"}

\* text.split(/\s+/): the pieces between runs of whitespace, an empty
\* piece at an end where the text starts or ends with whitespace
RECURSIVE splitWhitespace(_)
splitWhitespace(text) ==
  LET S == {i \in 1..Len(text) : text[i] \in WhitespaceChars}
  IN IF S = {} THEN <<text>>
     ELSE LET i == CHOOSE x \in S : \A y \in S : x <= y
              R == {j \in i..Len(text) : \A k \in i..j : text[k] \in WhitespaceChars}
              j == CHOOSE x \in R : \A y \in R : y <= x
          IN <<SubSeq(text, 1, i - 1)>> \o splitWhitespace(SubSeq(text, j + 1, Len(text)))

titleKeywords_noLimit(title) ==
  LET stripped == SelectSeq(toLowerCase(title),
                    LAMBDA c : c \in WhitespaceChars \/ IsDigit(c)
                               \/ \E n \in 1..26 : LowerCaseLetters[n] = c)
      words == SelectSeq(splitWhitespace(stripped), LAMBDA word : Len(word) > 3)
  IN Join(words, <<",", " ">>)

\* title.toLowerCase().replace(/[^a-z0-9\s]/g, '').split(/\s+/)
\*   .filter(word => word.length > 3).slice(0, 5).join(', ')
titleKeywords(title) ==
  LET stripped == SelectSeq(toLowerCase(title),
                    LAMBDA c : c \in WhitespaceChars \/ IsDigit(c)
                               \/ \E n \in 1..26 : LowerCaseLetters[n] = c)
      words == SelectSeq(splitWhitespace(stripped), LAMBDA word : Len(word) > 3)
  IN Join(SubSeq(words, 1, IF Len(words) < 5 THEN Len(words) ELSE 5), <<",", " ">>)

\* text.substring(0, n)
substring0(text, n) == SubSeq(text, 1, IF Len(text) < n THEN Len(text) ELSE n)

\* {...data.seo, [k]: v}, data.seo possibly undefined
withSeo(data, k, v) ==
  [f \in DOMAIN data \cup {"seo"} |->
     IF f = "seo" THEN Spread(IF GetObj(data, "seo") = NoObj THEN EmptyObj ELSE data.seo,
                              [x \in {k} |-> v])
     ELSE data[f]]

\* data.seo?.[k]
dataSeo(data, k) == Opt(GetObj(data, "seo"), k)

\* the hook suffixing the site title on every run, an seo.title already
\* present included
beforeChange_appendSite(data, req) ==
  LET site == Or(siteGlobal(req.payload, "title"), <<"Site">>)
      d1 == IF Truthy(Get(data, "title"))
            THEN withSeo(data, "title",
                         Or(dataSeo(data, "title"), data.title) \o <<" | ">> \o site)
            ELSE data
      d2 == IF Truthy(Get(d1, "excerpt")) /\ ~Truthy(dataSeo(d1, "description"))
            THEN withSeo(d1, "description", substring0(d1.excerpt, 160)) ELSE d1
      d3 == IF Truthy(dataSeo(d2, "description")) /\ Len(d2.seo.description) > 160
            THEN withSeo(d2, "description", substring0(d2.seo.description, 160)) ELSE d2
      keywords == titleKeywords(Get(d3, "title"))
  IN IF Truthy(Get(d3, "title")) /\ ~Truthy(dataSeo(d3, "keywords")) /\ Truthy(keywords)
     THEN withSeo(d3, "keywords", keywords) ELSE d3

\* the hook: the record after its four steps (title, description from the
\* excerpt, truncation of the description, keywords from the title)
beforeChange(data, req) ==
  LET site == Or(siteGlobal(req.payload, "title"), <<"Site">>)
      d1 == IF Truthy(Get(data, "title")) /\ ~Truthy(dataSeo(data, "title"))
            THEN withSeo(data, "title", data.title \o <<" | ">> \o site) ELSE data
      d2 == IF Truthy(Get(d1, "excerpt")) /\ ~Truthy(dataSeo(d1, "description"))
            THEN withSeo(d1, "description", substring0(d1.excerpt, 160)) ELSE d1
      d3 == IF Truthy(dataSeo(d2, "description")) /\ Len(d2.seo.description) > 160
            THEN withSeo(d2, "description", substring0(d2.seo.description, 160)) ELSE d2
      keywords == titleKeywords(Get(d3, "title"))
  IN IF Truthy(Get(d3, "title")) /\ ~Truthy(dataSeo(d3, "keywords")) /\ Truthy(keywords)
     THEN withSeo(d3, "keywords", keywords) ELSE d3

\* records with title, excerpt and the seo fields absent, empty, short and
\* long; descriptions and excerpts of exactly 160 and of 161 characters
HookDataSet ==
  LET long(n) == [i \in 1..n |-> IF i % 7 = 0 THEN " " ELSE "x"]
      absent == <<"#absent">>
      titles == {absent, <<>>, <<"H", "i">>, <<" ", "T", "h", "e", " ", "Q", "u", "i", "c", "k", " ", "b", "r", "o", "w", "n", "-", "i", "s", "h", " ", "f", "o", "x", "'", "s", " ", "2", "0", "2", "4", " ", " ", "G", "u", "i", "d", "e", "\t", "N", "O", "W">>, <<"A", "l", "p", "h", "a", " ", "B", "r", "a", "v", "o", " ", "C", "h", "a", "r", "l", "i", "e", " ", "D", "e", "l", "t", "a", " ", "E", "c", "h", "o", "1", " ", "F", "o", "x", "t", "r", "o", "t", " ", "G", "o", "l", "f">>, <<"a", " ", "&", " ", "b", "!">>}
      excerpts == {absent, <<>>, <<"e", "x">>, long(161)}
      descriptions == {absent, undefined, <<>>, <<"d">>, long(160), long(161)}
      seos == {NoObj} \cup
              { [f \in {k \in {"title", "description", "keywords"} :
                          (k = "title" /\ t # absent) \/ (k = "description" /\ d # absent)
                          \/ (k = "keywords" /\ w # absent)} \cup {"noIndex"} |->
                   CASE f = "title" -> t [] f = "description" -> d
                     [] f = "keywords" -> w [] f = "noIndex" -> TRUE] :
                  t \in {absent, <<>>, <<"S">>}, d \in descriptions,
                  w \in {absent, <<>>, <<"k">>} }
  IN { [f \in {k \in {"title", "excerpt", "seo"} :
                 (k = "title" /\ t # absent) \/ (k = "excerpt" /\ e # absent)
                 \/ (k = "seo" /\ o # NoObj)} \cup {"slug"} |->
          CASE f = "title" -> t [] f = "excerpt" -> e [] f = "seo" -> o
            [] f = "slug" -> <<"s">>] :
         t \in titles, e \in excerpts, o \in seos }

----------------------------------------------------------------------------
(* Svelte adapter: createSEOStore                                          *)

MaxStoreCalls == 2

\* the objects of the heap are numbered; a reference is an object's number.
\* store.heap is the heap, store.seo the object the closure variable seo is
\* bound to, store.passed the references the caller handed in (to
\* createSEOStore and to set) with the value each had at that moment.

\* let seo = initialSEO
createSEOStore(initialSEO) ==
  [heap |-> <<initialSEO>>, seo |-> 1,
   passed |-> <<[ref |-> 1, value |-> initialSEO]>>, calls |-> 0]

\* get title() { return seo.title }, and the six other getters
StoreGetters == {"title", "description", "keywords", "image", "url", "type", "structuredData"}
getters(s) == [k \in StoreGetters |-> Get(s.heap[s.seo], k)]

\* set: seo = newSEO, newSEO a reference to an object of the heap
storeSet(s, ref) ==
  [s EXCEPT !.seo = ref, !.passed = Append(@, [ref |-> ref, value |-> s.heap[ref]]),
            !.calls = @ + 1]

\* update writing the updates into the bound object:
\* Object.assign(seo, updates)
storeUpdate_inPlace(s, updates) ==
  [s EXCEPT !.heap[s.seo] = Spread(@, updates), !.calls = @ + 1]

\* update: seo = { ...seo, ...updates }, a new object
storeUpdate(s, updates) ==
  [s EXCEPT !.heap = Append(@, Spread(s.heap[s.seo], updates)), !.seo = Len(s.heap) + 1,
            !.calls = @ + 1]

StoreDataSet ==
  {[title |-> <<"A">>, description |-> <<"a">>],
   [title |-> <<"B">>, description |-> <<"b">>, keywords |-> <<"k">>,
    url |-> <<"u">>, type |-> <<"article">>]}

StoreUpdateSet ==
  {EmptyObj, [title |-> <<"C">>], [keywords |-> undefined],
   [description |-> <<"c">>, image |-> <<"i">>], [type |-> <<"website">>]}

----------------------------------------------------------------------------
(* React component: SEOHead                                                *)

\* an element of the rendered head: <title>, <meta name=...>,
\* <meta property=...> or <script type=...>, with the value React is given
\* for its text or its content attribute
HeadElement(key, name, content) == [key |-> key, name |-> name, content |-> content]

\* the elements SEOHead renders, in order; `{x && <meta />}` renders the
\* element when x is truthy
SEOHead(seo) ==
  << HeadElement("title", "", seo.title),
     HeadElement("name", "description", seo.description) >>
  \o (IF Truthy(seo.keywords)
      THEN << HeadElement("name", "keywords", seo.keywords) >> ELSE <<>>)
  \o << HeadElement("property", "og:title", seo.title),
        HeadElement("property", "og:description", seo.description),
        HeadElement("property", "og:type", Or(seo.type, <<"website">>)) >>
  \o (IF Truthy(seo.url)
      THEN << HeadElement("property", "og:url", seo.url) >> ELSE <<>>)
  \o (IF Truthy(seo.image)
      THEN << HeadElement("property", "og:image", seo.image) >> ELSE <<>>)
  \o << HeadElement("name", "twitter:card", <<"summary_large_image">>),
        HeadElement("name", "twitter:title", seo.title),
        HeadElement("name", "twitter:description", seo.description) >>
  \o (IF Truthy(seo.image)
      THEN << HeadElement("name", "twitter:image", seo.image) >> ELSE <<>>)
  \o (IF Truthy(seo.structuredData)
      THEN << HeadElement("script", "application/ld+json", seo.structuredData) >>
      ELSE <<>>)

----------------------------------------------------------------------------
(* React Router adapter: generateReactRouterMeta                           *)

\* a descriptor: { title }, { name, content } or { property, content }
MetaDescriptor(key, name, content) == [key |-> key, name |-> name, content |-> content]

\* metaTags.split('\n'): the separator of generateMetaTags is a line break
\* followed by four spaces, which stay at the head of the next line
RECURSIVE splitLines(_)
splitLines(text) ==
  LET S == {i \in 1..Len(text) : text[i] \in {"\n", TagSeparator[1]}} IN
  IF S = {} THEN <<text>>
  ELSE LET i == CHOOSE x \in S : \A y \in S : x <= y
           rest == SubSeq(text, i + 1, Len(text))
       IN <<SubSeq(text, 1, i - 1)>>
          \o splitLines(IF text[i] = "\n" THEN rest ELSE <<"    ">> \o rest)

\* line.trim() is not empty
notBlank(line) == \E i \in 1..Len(line) : line[i] \notin {" ", "    ", "\t"}

\* the opening texts /<meta\s+(?:name|property)="([^"]+)"\s+content="/
\* matches in a line, with the name it captures and name.startsWith('og:')
metaOpenings ==
  { [text |-> MetaName(n), name |-> n, og |-> FALSE] :
      n \in {"description", "keywords", "twitter:card", "twitter:image",
             "twitter:title", "twitter:description"} }
  \cup { [text |-> MetaProperty(n), name |-> n, og |-> TRUE] :
           n \in {"og:title", "og:description", "og:type", "og:url", "og:image"} }

\* the callback of map: the descriptor of a line, or null (NoObj)
lineDescriptor(line) ==
  LET first(S) == CHOOSE x \in S : \A y \in S : x <= y
      titles == {i \in 1..Len(line) : line[i] = "<title>"}
      titleEnds == {j \in 1..Len(line) : titles # {} /\ j > first(titles) /\ line[j] = "</title>"}
      \* "([^"]+)"\s*\/?>: one character at least, up to the next quote,
      \* which the end of the tag must follow
      metas == {i \in 1..Len(line) :
                  /\ \E o \in metaOpenings : o.text = line[i]
                  /\ \E j \in (i + 2)..Len(line) :
                       /\ line[j] = MetaEnd
                       /\ \A k \in (i + 1)..(j - 1) : line[k] \notin {"\"", MetaEnd}}
  IN IF titles # {} /\ titleEnds # {}
     THEN MetaDescriptor("title", "", SubSeq(line, first(titles) + 1, first(titleEnds) - 1))
     ELSE IF metas # {}
     THEN LET i == first(metas)
              o == CHOOSE x \in metaOpenings : x.text = line[i]
              j == first({k \in (i + 2)..Len(line) : line[k] = MetaEnd})
          IN MetaDescriptor(IF o.og THEN "property" ELSE "name", o.name,
                            SubSeq(line, i + 1, j - 1))
     ELSE NoObj

generateReactRouterMeta(page, siteSettings, typeArg, baseUrl) ==
  LET type == IF typeArg = NoType THEN "page" ELSE typeArg
      seo == generateSEO(page, siteSettings, type, baseUrl, NoCrumbs)
      metaTags == generateMetaTags(seo)
      lines == SelectSeq(splitLines(metaTags), notBlank)
      metaArray == [i \in 1..Len(lines) |-> lineDescriptor(lines[i])]
  IN SelectSeq(metaArray, LAMBDA item : item # NoObj)

----------------------------------------------------------------------------
(* The state machine: calls of the exported functions, the mounted hook,    *)
(* the preload in flight                                                   *)

Init ==
  /\ op = "idle" /\ args = NoObj /\ ret = <<>>
  /\ hook = NoObj /\ loader = NoObj /\ store = NoObj

CallGenerateSEO ==
  LET TypeArgSet == {NoType, "home", "page"}
      BaseUrlSet == {undefined, <<>>, <<"b">>}
  IN
  /\ op = "idle" /\ hook = NoObj /\ loader = NoObj /\ store = NoObj
  /\ UNCHANGED <<hook, loader, store>>
  /\ \E data \in PageSet \cup SiteSettingsSet, siteSettings \in SiteSettingsSet,
        type \in TypeArgSet, baseUrl \in BaseUrlSet, breadcrumbs \in SeoBreadcrumbsSet :
       /\ op' = "generateSEO"
       /\ args' = [data |-> data, siteSettings |-> siteSettings, type |-> type,
                   baseUrl |-> baseUrl, breadcrumbs |-> breadcrumbs]
       /\ ret' = generateSEO(data, siteSettings, type, baseUrl, breadcrumbs)

CallGenerateMetaTags ==
  /\ op = "idle" /\ hook = NoObj /\ loader = NoObj /\ store = NoObj
  /\ UNCHANGED <<hook, loader, store>>
  /\ \E seo \in SEODataSet :
       /\ op' = "generateMetaTags"
       /\ args' = [seo |-> seo]
       /\ ret' = generateMetaTags(seo)

CallGenerateStructuredData ==
  /\ op = "idle" /\ hook = NoObj /\ loader = NoObj /\ store = NoObj
  /\ UNCHANGED <<hook, loader, store>>
  /\ \E baseUrl \in {<<>>, <<"b">>}, siteSettings \in ArticleSiteSettingsSet,
        page \in {NoObj} \cup ArticlePageSet, breadcrumbs \in BreadcrumbsSet :
       /\ op' = "generateStructuredData"
       /\ args' = [baseUrl |-> baseUrl, siteSettings |-> siteSettings,
                   page |-> page, breadcrumbs |-> breadcrumbs]
       /\ ret' = generateStructuredData(args')

CallGenerateSitemapUrls ==
  LET NowSet == {IsoDate(9)}
  IN
  /\ op = "idle" /\ hook = NoObj /\ loader = NoObj /\ store = NoObj
  /\ UNCHANGED <<hook, loader, store>>
  /\ \E pages \in SeqsUpTo(SitemapPageSet, MaxPages), now \in NowSet,
        config \in SitemapConfigSet :
       /\ op' = "generateSitemapUrls"
       /\ args' = [pages |-> pages, now |-> now, config |-> config]
       /\ ret' = generateSitemapUrls(pages, now, config)

CallGenerateSitemapXML ==
  /\ op = "idle" /\ hook = NoObj /\ loader = NoObj /\ store = NoObj
  /\ UNCHANGED <<hook, loader, store>>
  /\ \E urls \in SitemapUrlsSet :
       /\ op' = "generateSitemapXML"
       /\ args' = [urls |-> urls]
       /\ ret' = generateSitemapXML(urls)

CallUseSEO ==
  /\ op = "idle" /\ hook = NoObj /\ loader = NoObj /\ store = NoObj
  /\ UNCHANGED <<hook, loader, store>>
  /\ \E options \in OptionsSet :
       /\ op' = "useSEO"
       /\ args' = [options |-> options]
       /\ ret' = useSEO(options)

CallGenerateSEOData ==
  /\ op = "idle" /\ hook = NoObj /\ loader = NoObj /\ store = NoObj
  /\ UNCHANGED <<hook, loader, store>>
  /\ \E options \in OptionsSet :
       /\ op' = "generateSEOData"
       /\ args' = [options |-> options]
       /\ ret' = generateSEOData(options)

CallGenerateMetadata ==
  /\ op = "idle" /\ hook = NoObj /\ loader = NoObj /\ store = NoObj
  /\ UNCHANGED <<hook, loader, store>>
  /\ \E options \in OptionsSet :
       /\ op' = "generateMetadata"
       /\ args' = [options |-> options]
       /\ ret' = generateMetadata(options)

\* useSEOManager(initialOptions): seoData null, options the initial ones;
\* calls records the updateSEO and updateOptions calls made since
MountManager ==
  /\ op = "idle" /\ hook = NoObj /\ loader = NoObj /\ store = NoObj
  /\ \E initialOptions \in ManagerInitialOptionsSet :
       hook' = [initial |-> initialOptions, options |-> initialOptions,
                seoData |-> NoObj, calls |-> <<>>]
  /\ UNCHANGED <<op, args, ret, loader, store>>

UpdateSEO ==
  /\ hook # NoObj /\ Len(hook.calls) < MaxUpdates
  /\ \E updates \in SeoUpdateSet :
       hook' = [hook EXCEPT !.seoData = mergeSeoData(@, updates),
                            !.calls = Append(@, [fn |-> "updateSEO", arg |-> updates])]
  /\ UNCHANGED <<op, args, ret, loader, store>>

UpdateOptions ==
  /\ hook # NoObj /\ Len(hook.calls) < MaxUpdates
  /\ \E newOptions \in OptionsUpdateSet :
       hook' = [hook EXCEPT !.options = Spread(@, newOptions),
                            !.calls = Append(@, [fn |-> "updateOptions", arg |-> newOptions])]
  /\ UNCHANGED <<op, args, ret, loader, store>>

UnmountManager ==
  /\ hook # NoObj
  /\ hook' = NoObj
  /\ UNCHANGED <<op, args, ret, loader, store>>

\* preloadFrameworkUtils(frameworks): one promise per key, then Promise.all
CallPreloadFrameworkUtils ==
  \* keys a caller may pass, typed or not
  LET FrameworkKeySet == {"react", "nextjs", "sveltekit", "vue", ""}
  IN
  /\ op = "idle" /\ hook = NoObj /\ loader = NoObj /\ store = NoObj
  /\ \E frameworks \in SeqsUpTo(FrameworkKeySet, MaxFrameworks) :
       loader' = [frameworks |-> frameworks,
                  promises |-> [i \in 1..Len(frameworks) |->
                                  lazyLoadFrameworkUtils(frameworks[i])],
                  all |-> [state |-> "pending"]]
  /\ UNCHANGED <<op, args, ret, hook, store>>

\* the import awaited by one lazyLoadFrameworkUtils call loads
ResolveImport ==
  /\ loader # NoObj
  /\ \E i \in 1..Len(loader.promises) :
       /\ loader.promises[i].state = "pending"
       /\ loader' = [loader EXCEPT !.promises[i] =
                       [state |-> "fulfilled",
                        value |-> FrameworkUtils(loader.frameworks[i])]]
  /\ UNCHANGED <<op, args, ret, hook, store>>

\* Promise.all settles: rejected with the reason of a rejected promise, or
\* fulfilled once every promise is
SettlePreload ==
  /\ loader # NoObj /\ loader.all.state = "pending"
  /\ LET rejected == {i \in 1..Len(loader.promises) : loader.promises[i].state = "rejected"}
     IN IF rejected # {}
        THEN LET first == CHOOSE i \in rejected : \A j \in rejected : i <= j
             IN loader' = [loader EXCEPT !.all = loader.promises[first]]
        ELSE /\ \A i \in 1..Len(loader.promises) : loader.promises[i].state = "fulfilled"
             /\ loader' = [loader EXCEPT !.all = [state |-> "fulfilled"]]
  /\ UNCHANGED <<op, args, ret, hook, store>>

\* the caller has seen the outcome and every import has finished
ReturnPreload ==
  /\ loader # NoObj /\ loader.all.state # "pending"
  /\ \A i \in 1..Len(loader.promises) : loader.promises[i].state # "pending"
  /\ loader' = NoObj
  /\ UNCHANGED <<op, args, ret, hook, store>>

CallAfterRead ==
  \* process.env
  LET EnvSet == [SITE_URL : {undefined, <<>>, <<"h", ":", "/", "/", "u">>}]
  \* requests: no payload, a payload without configuration, and site globals
  \* with every combination of absent, empty and present title and description
      ReqSet ==
        { [payload |-> NoObj], [payload |-> [config |-> NoObj]],
          [payload |-> [config |-> [globals |-> NoObj]]] }
        \cup { [payload |-> [config |-> [globals |-> [site |-> [title |-> t, description |-> d]]]]] :
                 t \in OptText(<<"P">>), d \in OptText(<<"Q">>) }
  \* docs: none, a value that is not an object, and objects, frozen or not,
  \* with and without a title
      DocSet ==
        { [kind |-> "absent", frozen |-> FALSE, fields |-> EmptyObj],
          [kind |-> "primitive", frozen |-> FALSE, fields |-> EmptyObj] }
        \cup [kind : {"object"}, frozen : BOOLEAN,
              fields : { Page(<<"T">>, <<"s">>, <<"e">>, FeaturedImage, NoObj, undefined),
                         Page(<<"T">>, <<"s">>, undefined, NoObj,
                              SEOFields(<<"S">>, <<"D">>, <<"k">>, SeoImage), <<"2024-01-03">>),
                         [id |-> <<"2">>, slug |-> <<"m">>] }]
  IN
  /\ op = "idle" /\ hook = NoObj /\ loader = NoObj /\ store = NoObj
  /\ UNCHANGED <<hook, loader, store>>
  /\ \E doc \in DocSet, req \in ReqSet, env \in EnvSet :
       /\ op' = "afterRead"
       /\ args' = [doc |-> doc, req |-> req, env |-> env]
       /\ ret' = afterRead(doc, req, env)

CallGenerateProductSchema ==
  /\ op = "idle" /\ hook = NoObj /\ loader = NoObj /\ store = NoObj
  /\ UNCHANGED <<hook, loader, store>>
  /\ \E baseUrl \in {<<>>, <<"b">>}, product \in ProductSet :
       /\ op' = "generateProductSchema"
       /\ args' = [baseUrl |-> baseUrl, product |-> product]
       /\ ret' = generateProductSchema(baseUrl, product)

CallBeforeChange ==
  /\ op = "idle" /\ hook = NoObj /\ loader = NoObj /\ store = NoObj
  /\ UNCHANGED <<hook, loader, store>>
  /\ \E data \in HookDataSet,
        req \in {[payload |-> [config |-> NoObj]],
                 [payload |-> [config |-> [globals |-> [site |-> [title |-> <<"P">>]]]]]} :
       /\ op' = "beforeChange"
       /\ args' = [data |-> data, req |-> req, first |-> NoObj]
       /\ ret' = beforeChange(data, req)

\* the record the hook produced is saved again: the hook runs on it
CallBeforeChangeAgain ==
  /\ op = "beforeChange" /\ args.first = NoObj
  /\ UNCHANGED <<hook, loader, store>>
  /\ op' = "beforeChange"
  /\ args' = [data |-> ret, req |-> args.req, first |-> args.data]
  /\ ret' = beforeChange(ret, args.req)

\* createSEOStore(initialSEO), then a read of the seven getters
CallCreateSEOStore ==
  /\ op = "idle" /\ hook = NoObj /\ loader = NoObj /\ store = NoObj
  /\ UNCHANGED <<hook, loader>>
  /\ \E initialSEO \in StoreDataSet :
       /\ store' = createSEOStore(initialSEO)
       /\ op' = "createSEOStore"
       /\ args' = [initialSEO |-> initialSEO]
       /\ ret' = getters(store')

\* store.set(newSEO) with an object the caller has just built, then a read
\* of the getters
StoreSetNew ==
  /\ store # NoObj /\ store.calls < MaxStoreCalls
  /\ UNCHANGED <<hook, loader>>
  /\ \E newSEO \in StoreDataSet :
       LET allocated == [store EXCEPT !.heap = Append(@, newSEO)]
       IN /\ store' = storeSet(allocated, Len(allocated.heap))
          /\ op' = "set"
          /\ args' = [newSEO |-> newSEO, before |-> store]
          /\ ret' = getters(store')

\* store.set(newSEO) with an object the caller passed before, then a read of
\* the getters
StoreSetSame ==
  /\ store # NoObj /\ store.calls < MaxStoreCalls
  /\ UNCHANGED <<hook, loader>>
  /\ \E i \in 1..Len(store.passed) :
       /\ store' = storeSet(store, store.passed[i].ref)
       /\ op' = "set"
       /\ args' = [newSEO |-> store.passed[i].value, before |-> store]
       /\ ret' = getters(store')

\* store.update(updates), then a read of the getters
StoreUpdate ==
  /\ store # NoObj /\ store.calls < MaxStoreCalls
  /\ UNCHANGED <<hook, loader>>
  /\ \E updates \in StoreUpdateSet :
       /\ store' = storeUpdate(store, updates)
       /\ op' = "update"
       /\ args' = [updates |-> updates, before |-> store]
       /\ ret' = getters(store')

\* the store is dropped
DropStore ==
  /\ store # NoObj
  /\ UNCHANGED <<hook, loader>>
  /\ store' = NoObj /\ op' = "idle" /\ args' = NoObj /\ ret' = <<>>

CallGenerateReactRouterMeta ==
  /\ op = "idle" /\ hook = NoObj /\ loader = NoObj /\ store = NoObj
  /\ UNCHANGED <<hook, loader, store>>
  /\ \E page \in PageSet
                 \cup {Page(<<"a", c>>, <<"s", c>>, <<"e">>, NoObj, NoObj, undefined) :
                         c \in {"&", "<", ">", "\"", "'"}},
        siteSettings \in SiteSettingsSet,
        type \in {NoType, "home", "page"}, baseUrl \in {undefined, <<"b">>} :
       /\ op' = "generateReactRouterMeta"
       /\ args' = [page |-> page, siteSettings |-> siteSettings, type |-> type,
                   baseUrl |-> baseUrl]
       /\ ret' = generateReactRouterMeta(page, siteSettings, type, baseUrl)

\* <SEOHead seo={seo} /> rendered once
RenderSEOHead ==
  /\ op = "idle" /\ hook = NoObj /\ loader = NoObj /\ store = NoObj
  /\ UNCHANGED <<hook, loader, store>>
  /\ \E seo \in SEODataSet \cup {[title |-> <<"t">>, description |-> <<"d">>,
                                  keywords |-> undefined, image |-> undefined,
                                  url |-> undefined, type |-> undefined,
                                  structuredData |-> <<"[", "]">>]} :
       /\ op' = "SEOHead"
       /\ args' = [seo |-> seo]
       /\ ret' = SEOHead(seo)

\* generateSEO for a page and generateSitemapUrls for the same page, with
\* the same baseUrl
CallSEOAndSitemap ==
  /\ op = "idle" /\ hook = NoObj /\ loader = NoObj /\ store = NoObj
  /\ UNCHANGED <<hook, loader, store>>
  /\ \E page \in SitemapPageSet
                 \cup {SitemapPage(t, <<"published">>, NoObj, DateOnly(2), undefined) :
                         t \in TextSet},
        siteSettings \in ArticleSiteSettingsSet,
        baseUrl \in {<<"b">>, <<"h", ":", "/", "/", "x", "&", "/">>} :
       /\ op' = "generateSEO, generateSitemapUrls"
       /\ args' = [page |-> page, siteSettings |-> siteSettings, baseUrl |-> baseUrl]
       /\ ret' = [seo |-> generateSEO(page, siteSettings, "page", baseUrl, NoCrumbs),
                  urls |-> generateSitemapUrls(<<page>>, IsoDate(9), [baseUrl |-> baseUrl])]

Return ==
  /\ op # "idle" /\ store = NoObj
  /\ UNCHANGED <<hook, loader, store>>
  /\ op' = "idle" /\ args' = NoObj /\ ret' = <<>>


Next ==
  \/ CallGenerateReactRouterMeta
  \/ RenderSEOHead
  \/ CallSEOAndSitemap
  \/ CallCreateSEOStore
  \/ StoreSetNew
  \/ StoreSetSame
  \/ StoreUpdate
  \/ DropStore
  \/ CallGenerateSEO
  \/ CallGenerateMetaTags
  \/ CallGenerateStructuredData
  \/ CallGenerateSitemapUrls
  \/ CallGenerateSitemapXML
  \/ CallUseSEO
  \/ CallGenerateSEOData
  \/ CallGenerateMetadata
  \/ CallAfterRead
  \/ CallGenerateProductSchema
  \/ CallBeforeChange
  \/ CallBeforeChangeAgain
  \/ Return
  \/ MountManager
  \/ UpdateSEO
  \/ UpdateOptions
  \/ UnmountManager
  \/ CallPreloadFrameworkUtils
  \/ ResolveImport
  \/ SettlePreload
  \/ ReturnPreload

\* one specification per exported function or component, and Spec for
\* all of them; a call, a mounted hook or a preload runs one at a time
SpecSEO == Init /\ [][CallGenerateSEO \/ Return]_vars
SpecMetaTags == Init /\ [][CallGenerateMetaTags \/ Return]_vars
SpecStructuredData == Init /\ [][CallGenerateStructuredData \/ Return]_vars
Spec == Init /\ [][Next]_vars

SpecSitemap == Init /\ [][CallGenerateSitemapUrls \/ Return]_vars
SpecSitemapXML == Init /\ [][CallGenerateSitemapXML \/ Return]_vars

SpecAdapters == Init /\ [][CallUseSEO \/ CallGenerateSEOData \/ CallGenerateMetadata \/ Return]_vars

SpecManager == Init /\ [][MountManager \/ UpdateSEO \/ UpdateOptions \/ UnmountManager]_vars

SpecLoader == Init /\ [][CallPreloadFrameworkUtils \/ ResolveImport \/ SettlePreload \/ ReturnPreload]_vars

SpecHooks == Init /\ [][CallAfterRead \/ Return]_vars

SpecProduct == Init /\ [][CallGenerateProductSchema \/ Return]_vars

SpecReactRouter == Init /\ [][CallGenerateReactRouterMeta \/ Return]_vars

SpecSEOHead == Init /\ [][RenderSEOHead \/ Return]_vars

SpecCanonical == Init /\ [][CallSEOAndSitemap \/ Return]_vars

SpecStore ==
  Init /\ [][CallCreateSEOStore \/ StoreSetNew \/ StoreSetSame \/ StoreUpdate \/ DropStore]_vars

SpecBeforeChange == Init /\ [][CallBeforeChange \/ CallBeforeChangeAgain \/ Return]_vars

----------------------------------------------------------------------------
(* Properties of generateSEO *)

\* the type seen by the body of generateSEO
CalledType == IF args.type = NoType THEN "home" ELSE args.type

CarriesTitle == "title" \in DOMAIN args.data
CarriesSlug == "slug" \in DOMAIN args.data

SiteNameOrWebsite ==
  IF args.siteSettings.siteName \in {undefined, <<>>} THEN <<"Website">>
  ELSE args.siteSettings.siteName

\* the first non-empty value of a list of candidates, the last one being a literal
RECURSIVE FirstNonEmpty(_)
FirstNonEmpty(cands) ==
  IF Len(cands) = 1 \/ Head(cands) \notin {undefined, <<>>}
  THEN Head(cands) ELSE FirstNonEmpty(Tail(cands))

DataSeoField(k) ==
  IF "seo" \in DOMAIN args.data /\ args.data.seo # NoObj THEN args.data.seo[k] ELSE undefined

DataField(k) == IF k \in DOMAIN args.data THEN args.data[k] ELSE undefined

\* C1: for every input of generateSEO the returned title and description
\* are non-empty strings.
C1_TitleDescriptionNonEmpty ==
  op = "generateSEO" =>
    /\ ret.title # undefined /\ Len(ret.title) > 0
    /\ ret.description # undefined /\ Len(ret.description) > 0

\* every optional input absent or empty, and the page title empty
C1_Witness ==
  /\ op = "generateSEO"
  /\ CalledType = "page" /\ CarriesTitle
  /\ args.data.title = <<>> /\ args.data.excerpt = <<>>
  /\ args.data.seo # NoObj /\ args.data.seo.title = <<>> /\ args.data.seo.description = <<>>
  /\ args.siteSettings.siteName = undefined /\ args.siteSettings.siteDescription = <<>>
  /\ args.baseUrl = undefined /\ args.breadcrumbs = NoCrumbs
  /\ ret.title = <<" | ", "Website">>
  /\ ret.description = <<"A modern website">>

\* C2: with type 'page' and a title field in data, title is page.seo.title
\* when non-empty and otherwise page.title + ' | ' + site name; in every
\* other case title is the site name; the site name is 'Website' when
\* siteName is absent or empty.
C2_TitleRule ==
  op = "generateSEO" =>
    IF CalledType = "page" /\ CarriesTitle
    THEN IF DataSeoField("title") \notin {undefined, <<>>}
         THEN ret.title = DataSeoField("title")
         ELSE ret.title = args.data.title \o <<" | ">> \o SiteNameOrWebsite
    ELSE ret.title = SiteNameOrWebsite

\* a page without seo.title and a site without siteName
C2_Witness ==
  /\ op = "generateSEO"
  /\ CalledType = "page" /\ CarriesTitle
  /\ DataSeoField("title") = <<>>
  /\ args.siteSettings.siteName = <<>>
  /\ ret.title = <<"T", " | ", "Website">>

\* C3 as stated: whatever the type argument, description is the first
\* non-empty value among data.seo.description, data.excerpt,
\* siteSettings.siteDescription and 'A modern website'.
C3_DescriptionChainAnyType ==
  op = "generateSEO" =>
    ret.description = FirstNonEmpty(<<DataSeoField("description"), DataField("excerpt"),
                                      args.siteSettings.siteDescription,
                                      <<"A modern website">>>>)

\* C3 amended: the chain applies when type is 'page' and data carries a
\* title field; in every other case description is
\* siteSettings.siteDescription, or 'A modern website' when that is absent
\* or empty.
C3_DescriptionChainPageOnly ==
  op = "generateSEO" =>
    IF CalledType = "page" /\ CarriesTitle
    THEN ret.description = FirstNonEmpty(<<DataSeoField("description"), DataField("excerpt"),
                                           args.siteSettings.siteDescription,
                                           <<"A modern website">>>>)
    ELSE ret.description = FirstNonEmpty(<<args.siteSettings.siteDescription,
                                           <<"A modern website">>>>)

\* type 'home' with a page that has its own description and excerpt
C3_Witness ==
  /\ op = "generateSEO"
  /\ CalledType = "home" /\ CarriesTitle
  /\ DataSeoField("description") = <<"D">> /\ DataField("excerpt") = <<"e">>
  /\ args.siteSettings.siteDescription = <<"A">>
  /\ ret.description = <<"A">>

\* C4: with type 'page' and a slug in data, url is baseUrl + '/pages/' +
\* slug (string concatenation); in every other case url is the baseUrl
\* argument unchanged, undefined when it was not supplied.
C4_UrlRule ==
  op = "generateSEO" =>
    IF CalledType = "page" /\ CarriesSlug
    THEN ret.url = (IF args.baseUrl = undefined
                    THEN <<"u", "n", "d", "e", "f", "i", "n", "e", "d">>
                    ELSE args.baseUrl)
                   \o <<"/pages/">> \o args.data.slug
    ELSE ret.url = args.baseUrl

\* a page given with type 'home': the slug is not used
C4_Witness ==
  /\ op = "generateSEO"
  /\ CalledType = "home" /\ CarriesSlug /\ args.data.slug = <<"s">>
  /\ args.baseUrl = <<"b">>
  /\ ret.url = <<"b">>

\* C5: structuredData is set iff baseUrl is truthy; when set it is
\* generateStructuredData of the same baseUrl, siteSettings and breadcrumbs,
\* with page = data for type 'page' and no page for type 'home'.
C5_StructuredDataRule ==
  op = "generateSEO" =>
    IF args.baseUrl \notin {undefined, <<>>}
    THEN ret.structuredData =
           generateStructuredData([baseUrl |-> args.baseUrl,
                                   siteSettings |-> args.siteSettings,
                                   page |-> IF CalledType = "page" THEN args.data ELSE NoObj,
                                   breadcrumbs |-> args.breadcrumbs])
    ELSE ret.structuredData = undefined

\* type 'home' called with a page record and a base URL: no Article
C5_Witness ==
  /\ op = "generateSEO"
  /\ CalledType = "home" /\ CarriesTitle /\ args.baseUrl = <<"b">>
  /\ args.breadcrumbs # NoCrumbs
  /\ ret.structuredData # undefined
  /\ Len(JSONparse(ret.structuredData).v.a) = 2

----------------------------------------------------------------------------
(* Properties of generateMetaTags *)

\* s.split(sep) for a separator of one element
RECURSIVE Split(_, _)
Split(s, sep) ==
  LET S == {i \in 1..Len(s) : s[i] = sep} IN
  IF S = {} THEN <<s>>
  ELSE LET i == CHOOSE x \in S : \A y \in S : x <= y
       IN <<SubSeq(s, 1, i - 1)>> \o Split(SubSeq(s, i + 1, Len(s)), sep)

\* the tags of an output, each one the opening template, the embedded
\* text and the closing template
TagsOf(out) == Split(out, TagSeparator[1])
TagOpen(tag) == tag[1]
TagContent(tag) == SubSeq(tag, 2, Len(tag) - 1)
OpensOf(tags) == [i \in 1..Len(tags) |-> TagOpen(tags[i])]

Count(opens, open) == Cardinality({i \in 1..Len(opens) : opens[i] = open})
ContentOf(tags, open) == TagContent(tags[CHOOSE i \in 1..Len(tags) : TagOpen(tags[i]) = open])

TagOrder ==
  << "<title>",
     "<meta name=\"description\" content=\"",
     "<meta name=\"keywords\" content=\"",
     "<meta property=\"og:title\" content=\"",
     "<meta property=\"og:description\" content=\"",
     "<meta property=\"og:type\" content=\"",
     "<meta property=\"og:url\" content=\"",
     "<meta property=\"og:image\" content=\"",
     "<meta name=\"twitter:card\" content=\"",
     "<meta name=\"twitter:image\" content=\"",
     "<meta name=\"twitter:title\" content=\"",
     "<meta name=\"twitter:description\" content=\"" >>

IsTruthy(v) == v \notin {undefined, <<>>}

\* C6: the emitted tags are the tags of the fixed order, absent ones
\* skipped; the first is <title>, the second the description; og:type
\* carries 'website' when seo.type is absent.
C6_TagOrder ==
  op = "generateMetaTags" =>
    LET tags == TagsOf(ret)
        opens == OpensOf(tags)
    IN /\ opens = SelectSeq(TagOrder, LAMBDA o : Count(opens, o) > 0)
       /\ opens[1] = TagOrder[1]
       /\ opens[2] = TagOrder[2]
       /\ (args.seo.type = undefined => ContentOf(tags, TagOrder[6]) = <<"website">>)

\* all twelve tags emitted, seo.type absent
C6_Witness ==
  /\ op = "generateMetaTags"
  /\ IsTruthy(args.seo.keywords) /\ IsTruthy(args.seo.url) /\ IsTruthy(args.seo.image)
  /\ args.seo.type = undefined
  /\ Len(TagsOf(ret)) = 12
  /\ ContentOf(TagsOf(ret), TagOrder[6]) = <<"website">>

HtmlEntities ==
  { <<"&", "a", "m", "p", ";">>, <<"&", "l", "t", ";">>, <<"&", "g", "t", ";">>,
    <<"&", "q", "u", "o", "t", ";">>, <<"&", "#", "3", "9", ";">> }

\* the text holds none of < > " ' and every & in it begins an entity
NoRawSpecial(text) ==
  \A i \in 1..Len(text) :
    /\ text[i] \notin {"<", ">", "\"", "'"}
    /\ text[i] = "&" => \E e \in HtmlEntities : SubSeq(text, i, i + Len(e) - 1) = e

\* C8: no field value embedded by generateMetaTags (title, description,
\* keywords, type, url, image) places a raw & < > " or ' in the output.
C8_EveryFieldEscaped ==
  op = "generateMetaTags" =>
    LET tags == TagsOf(ret)
    IN \A i \in 1..Len(tags) : NoRawSpecial(TagContent(tags[i]))

----------------------------------------------------------------------------
(* Properties of generateStructuredData *)

TypeOfElement(e) == IF e.t = "obj" THEN Field(e, <<"@type">>) ELSE JUndef

PageSupplied == args.page # NoObj
BreadcrumbsSupplied == args.breadcrumbs # NoCrumbs /\ args.breadcrumbs # <<>>

\* C9: the output parses to an array of WebSite, then Article iff page is
\* supplied, then BreadcrumbList iff breadcrumbs is supplied and non-empty,
\* and nothing else.
C9_ParsesToSchemaArray ==
  op = "generateStructuredData" =>
    LET parsed == JSONparse(ret) IN
    /\ parsed.ok
    /\ parsed.v.t = "arr"
    /\ LET elements == parsed.v.a IN
       /\ [i \in 1..Len(elements) |-> TypeOfElement(elements[i])]
            = << JStr(<<"WebSite">>) >>
              \o (IF PageSupplied THEN << JStr(<<"Article">>) >> ELSE <<>>)
              \o (IF BreadcrumbsSupplied THEN << JStr(<<"BreadcrumbList">>) >> ELSE <<>>)
       /\ Len(elements) \in 1..3

\* a page, breadcrumbs, and texts with quotes, backslashes and a line break
C9_Witness ==
  /\ op = "generateStructuredData"
  /\ PageSupplied /\ BreadcrumbsSupplied
  /\ args.siteSettings = FullSiteSettings
  /\ \E i \in 1..Len(args.breadcrumbs) : args.breadcrumbs[i].name = <<"\"", "\\">>
  /\ LET parsed == JSONparse(ret) IN parsed.ok /\ Len(parsed.v.a) = 3

\* the itemListElement of the last element of the parsed output
ItemList(text) ==
  LET elements == JSONparse(text).v.a
  IN Field(elements[Len(elements)], <<"itemListElement">>)

\* C10: itemListElement has the length and order of the input; element i
\* (0-based) has position i + 1, the input name, and as item the url when
\* it starts with 'http' and baseUrl followed by the url otherwise.
C10_BreadcrumbItems ==
  (op = "generateStructuredData" /\ BreadcrumbsSupplied) =>
    LET items == ItemList(ret) IN
    /\ items.t = "arr"
    /\ Len(items.a) = Len(args.breadcrumbs)
    /\ \A i \in 1..Len(args.breadcrumbs) :
         /\ Field(items.a[i], <<"position">>) = JNum(i)
         /\ Field(items.a[i], <<"name">>) = JStr(args.breadcrumbs[i].name)
         /\ Field(items.a[i], <<"item">>) =
              JStr(IF Len(args.breadcrumbs[i].url) >= 4
                      /\ SubSeq(args.breadcrumbs[i].url, 1, 4) = <<"h", "t", "t", "p">>
                   THEN args.breadcrumbs[i].url
                   ELSE args.baseUrl \o args.breadcrumbs[i].url)

\* two crumbs, the first relative and the second absolute
C10_Witness ==
  /\ op = "generateStructuredData" /\ BreadcrumbsSupplied
  /\ args.baseUrl = <<"b">>
  /\ Len(args.breadcrumbs) = 2
  /\ args.breadcrumbs[1].url = <<"/", "a">>
  /\ args.breadcrumbs[2].url = <<"h", "t", "t", "p", ":", "/", "/", "x">>
  /\ LET items == ItemList(ret) IN
     /\ Field(items.a[1], <<"item">>) = JStr(<<"b", "/", "a">>)
     /\ Field(items.a[2], <<"position">>) = JNum(2)

----------------------------------------------------------------------------
(* Properties of generateSitemapUrls *)

\* the eligibility predicate: non-empty slug, status 'published', and
\* seo.noIndex not true
IsEligible(page) ==
  /\ page.slug \notin {undefined, <<>>}
  /\ page.status = <<"published">>
  /\ ~(page.seo # NoObj /\ page.seo.noIndex = TRUE)

EligiblePages == SelectSeq(args.pages, IsEligible)

ConfigOr(k, d) == IF k \in DOMAIN args.config THEN args.config[k] ELSE d

HomepageExpected == ConfigOr("includeHomepage", TRUE)

\* the entries of an output after the homepage entry
PageEntries(urls) == IF HomepageExpected /\ Len(urls) > 0 THEN Tail(urls) ELSE urls

\* C11: in the list returned by generateSitemapUrls the page entries are
\* those of the eligible pages (non-empty slug, status 'published',
\* seo.noIndex not true), one entry per eligible page in the order of the
\* input, each with loc = baseUrl + '/pages/' + slug.
C11_EligibleEntries ==
  op = "generateSitemapUrls" /\ ret.ok =>
    LET entries == PageEntries(ret.value)
        eligible == EligiblePages
    IN /\ Len(entries) = Len(eligible)
       /\ \A i \in 1..Len(eligible) :
            entries[i].loc = ConfigOr("baseUrl", <<>>) \o <<"/pages/">> \o eligible[i].slug

\* an ineligible page (noIndex) before an eligible one
C11_Witness ==
  /\ op = "generateSitemapUrls" /\ ret.ok
  /\ Len(args.pages) = 2
  /\ args.pages[1].seo # NoObj /\ args.pages[1].seo.noIndex
  /\ args.pages[2].slug = <<"t", "&">>
  /\ "baseUrl" \in DOMAIN args.config
  /\ Len(PageEntries(ret.value)) = 1
  /\ PageEntries(ret.value)[1].loc = <<"b", "/pages/", "t", "&">>

\* C12: the list returned by generateSitemapUrls is one homepage entry
\* (loc = baseUrl, changefreq 'daily', priority homepagePriority or 1.0)
\* followed by the eligible page entries when includeHomepage is true or
\* omitted, and the page entries alone when it is false; page entries
\* carry defaultChangefreq (or 'weekly') and pagePriority (or 0.8); the
\* length is the number of eligible pages plus one or zero.
C12_HomepageAndDefaults ==
  op = "generateSitemapUrls" /\ ret.ok =>
    LET urls == ret.value
        entries == PageEntries(urls)
    IN /\ Len(urls) = Len(EligiblePages) + (IF HomepageExpected THEN 1 ELSE 0)
       /\ HomepageExpected =>
            /\ urls[1].loc = ConfigOr("baseUrl", <<>>)
            /\ urls[1].changefreq = <<"daily">>
            /\ urls[1].priority = ConfigOr("homepagePriority", 10)
       /\ \A i \in 1..Len(entries) :
            /\ entries[i].loc # ConfigOr("baseUrl", <<>>)
            /\ entries[i].changefreq = ConfigOr("defaultChangefreq", <<"weekly">>)
            /\ entries[i].priority = ConfigOr("pagePriority", 8)

\* no configuration at all, two eligible pages
C12_Witness ==
  /\ op = "generateSitemapUrls" /\ ret.ok
  /\ DOMAIN args.config = {}
  /\ Len(EligiblePages) = 2
  /\ Len(ret.value) = 3
  /\ ret.value[1].loc = <<>> /\ ret.value[1].priority = 10
  /\ ret.value[2].changefreq = <<"weekly">> /\ ret.value[2].priority = 8

----------------------------------------------------------------------------
(* Properties of generateSitemapXML *)

XmlEntityTable ==
  { [e |-> <<"&", "a", "m", "p", ";">>, c |-> "&"],
    [e |-> <<"&", "l", "t", ";">>, c |-> "<"],
    [e |-> <<"&", "g", "t", ";">>, c |-> ">"],
    [e |-> <<"&", "q", "u", "o", "t", ";">>, c |-> "\""],
    [e |-> <<"&", "#", "3", "9", ";">>, c |-> "'"] }

\* the text an XML reader recovers from escaped character data
RECURSIVE XmlUnescape(_)
XmlUnescape(text) ==
  IF text = <<>> THEN <<>>
  ELSE LET es == {x \in XmlEntityTable :
                    Len(text) >= Len(x.e) /\ SubSeq(text, 1, Len(x.e)) = x.e}
       IN IF es = {} THEN <<text[1]>> \o XmlUnescape(Tail(text))
          ELSE LET x == CHOOSE y \in es : TRUE
               IN <<x.c>> \o XmlUnescape(SubSeq(text, Len(x.e) + 1, Len(text)))

\* the text has no raw < > " ' and every & in it begins an entity
XmlSafe(text) ==
  \A i \in 1..Len(text) :
    /\ text[i] \notin {"<", ">", "\"", "'"}
    /\ text[i] = "&" =>
         \E x \in XmlEntityTable :
           i + Len(x.e) - 1 <= Len(text) /\ SubSeq(text, i, i + Len(x.e) - 1) = x.e

\* the position of the first element `close` of text from i on, 0 if none
FirstAt(text, i, close) ==
  LET S == {j \in i..Len(text) : text[j] = close}
  IN IF S = {} THEN 0 ELSE CHOOSE j \in S : \A k \in S : j <= k

XmlFieldTokens ==
  << <<"    <loc>", "</loc>\n">>, <<"    <lastmod>", "</lastmod>\n">>,
     <<"    <changefreq>", "</changefreq>\n">>, <<"    <priority>", "</priority>\n">> >>

\* reads the four fields of a <url> block from position i: their texts and
\* the position after the last one (0 when the block is malformed)
RECURSIVE ReadFields(_, _, _, _)
ReadFields(text, i, f, acc) ==
  IF f > Len(XmlFieldTokens) THEN [fields |-> acc, next |-> i]
  ELSE IF i > Len(text) \/ text[i] # XmlFieldTokens[f][1] THEN [fields |-> acc, next |-> 0]
  ELSE LET j == FirstAt(text, i + 1, XmlFieldTokens[f][2])
       IN IF j = 0 THEN [fields |-> acc, next |-> 0]
          ELSE ReadFields(text, j + 1, f + 1, Append(acc, SubSeq(text, i + 1, j - 1)))

\* reads <url> blocks from position i up to the closing </urlset>
RECURSIVE ReadBlocks(_, _, _)
ReadBlocks(text, i, acc) ==
  IF i = Len(text) /\ text[i] = "</urlset>" THEN [ok |-> TRUE, blocks |-> acc]
  ELSE IF i >= Len(text) \/ text[i] # "  <url>\n" THEN [ok |-> FALSE, blocks |-> acc]
  ELSE LET r == ReadFields(text, i + 1, 1, <<>>)
       IN IF r.next = 0 \/ r.next > Len(text) \/ text[r.next] # "  </url>\n"
          THEN [ok |-> FALSE, blocks |-> acc]
          ELSE ReadBlocks(text, r.next + 1, Append(acc, r.fields))

\* the decimal text of a priority given in tenths
PriorityText(tenths) ==
  IF tenths = 10 THEN <<"1">>
  ELSE IF tenths = 8 THEN <<"0", ".", "8">>
  ELSE <<"0", ".", "3">>

\* C13: the output of generateSitemapXML is the XML declaration, the
\* <urlset> opening line, one <url> block per entry in input order whose
\* loc is the XML-escaped loc and whose lastmod, changefreq and priority
\* are the entry's values, and the closing </urlset>; for the empty list
\* only the two header lines and </urlset>.
C13_SitemapXML ==
  op = "generateSitemapXML" =>
    LET urls == args.urls
        r == IF Len(ret) >= 3 THEN ReadBlocks(ret, 3, <<>>) ELSE [ok |-> FALSE, blocks |-> <<>>]
    IN /\ Len(ret) >= 3
       /\ ret[1] = "<?xml version=\"1.0\" encoding=\"UTF-8\"?>\n"
       /\ ret[2] = "<urlset xmlns=\"http://www.sitemaps.org/schemas/sitemap/0.9\">\n"
       /\ r.ok
       /\ Len(r.blocks) = Len(urls)
       /\ \A i \in 1..Len(urls) :
            /\ XmlSafe(r.blocks[i][1])
            /\ XmlUnescape(r.blocks[i][1]) = urls[i].loc
            /\ r.blocks[i][2] = urls[i].lastmod
            /\ r.blocks[i][3] = urls[i].changefreq
            /\ r.blocks[i][4] = PriorityText(urls[i].priority)
       /\ urls = <<>> => Len(ret) = 3

\* the same entry twice, its loc holding an ampersand
C13_Witness ==
  /\ op = "generateSitemapXML"
  /\ Len(args.urls) = 2 /\ args.urls[1] = args.urls[2]
  /\ args.urls[1].loc = <<"b", "/pages/", "s", "&">>
  /\ Len(SelectSeq(ret, LAMBDA x : x = "  <url>\n")) = 2
  /\ FirstAt(ret, 1, "&") > 0 /\ SubSeq(ret, FirstAt(ret, 1, "&"), FirstAt(ret, 1, "&") + 4) = <<"&", "a", "m", "p", ";">>

----------------------------------------------------------------------------
(* Properties of the framework adapters *)

AdapterCalled == op \in {"useSEO", "generateSEOData", "generateMetadata"}

CallerOverrides == IF "overrides" \in DOMAIN args.options THEN args.options.overrides ELSE <<>>

\* what generateSEO derives for the options of the call
Derived ==
  LET o == args.options
      hasPage == "page" \in DOMAIN o
  IN generateSEO(IF hasPage THEN o.page ELSE o.siteSettings, o.siteSettings,
                 IF "type" \in DOMAIN o THEN o.type ELSE "home",
                 IF "baseUrl" \in DOMAIN o THEN o.baseUrl ELSE undefined,
                 IF "breadcrumbs" \in DOMAIN o THEN o.breadcrumbs ELSE NoCrumbs)

\* the record an adapter returns around the derived values; for useSEO the
\* SEO record, for generateMetadata the metadata keys holding them
RecordOf(opName, value) == IF opName = "useSEO" THEN value.seo ELSE value

DerivedKeys(opName) ==
  IF opName = "generateMetadata" THEN {"title", "description", "keywords"}
  ELSE DOMAIN Derived

\* C14: in the record returned by useSEO, generateSEOData and
\* generateMetadata every key of the caller's overrides holds the override
\* value and every other key holds the value generateSEO derives; the
\* metaTags of useSEO are generateMetaTags of the record after overrides and
\* carry its title and description.
C14_OverridesReplace ==
  AdapterCalled /\ ret.ok =>
    LET record == RecordOf(op, ret.value)
        derived == Derived
    IN /\ \A k \in DOMAIN CallerOverrides : record[k] = CallerOverrides[k]
       /\ \A k \in DerivedKeys(op) \ DOMAIN CallerOverrides : record[k] = derived[k]
       /\ op = "generateMetadata" =>
            /\ record.openGraph.title = derived.title
            /\ record.alternates.canonical = derived.url
       /\ op = "useSEO" =>
            LET tags == TagsOf(ret.value.metaTags)
            IN /\ ret.value.metaTags = generateMetaTags(record)
               /\ XmlUnescape(ContentOf(tags, TagOrder[1])) = ret.value.title
               /\ XmlUnescape(ContentOf(tags, TagOrder[2])) = ret.value.description
               /\ ret.value.title = record.title
               /\ ret.value.description = record.description

\* useSEO with a page, the title overridden and the description derived
C14_Witness ==
  /\ op = "useSEO" /\ ret.ok
  /\ DOMAIN CallerOverrides = {"title"}
  /\ "page" \in DOMAIN args.options /\ "type" \in DOMAIN args.options
  /\ ret.value.title = <<"O", "&">>
  /\ ret.value.description = <<"e">>
  /\ ret.value.seo.type = <<"article">>

\* C18: the title and description returned by useSEO and generateSEOData
\* are non-empty strings for every options bag, overrides with an empty or
\* undefined value included.
C18_AdaptersNonEmpty ==
  op \in {"useSEO", "generateSEOData"} =>
    /\ ret.ok
    /\ RecordOf(op, ret.value).title \notin {undefined, <<>>}
    /\ RecordOf(op, ret.value).description \notin {undefined, <<>>}

----------------------------------------------------------------------------
(* Properties of useSEOManager *)

\* the shallow merge, in call order, of the arguments of the calls of fn
RECURSIVE MergeCalls(_, _, _)
MergeCalls(calls, fn, acc) ==
  IF calls = <<>> THEN acc
  ELSE MergeCalls(Tail(calls), fn,
                  IF Head(calls).fn = fn
                  THEN [k \in DOMAIN acc \cup DOMAIN Head(calls).arg |->
                          IF k \in DOMAIN Head(calls).arg THEN Head(calls).arg[k] ELSE acc[k]]
                  ELSE acc)

MergedOptions == MergeCalls(hook.calls, "updateOptions", hook.initial)
MergedUpdates == MergeCalls(hook.calls, "updateSEO", <<>>)
UpdateSEOCalled == \E i \in 1..Len(hook.calls) : hook.calls[i].fn = "updateSEO"

WithOverrides(options, overrides) ==
  [k \in DOMAIN options \cup {"overrides"} |->
     IF k = "overrides" THEN overrides ELSE options[k]]

\* C15 as stated: after any sequence of updateSEO and updateOptions calls
\* the exposed record is useSEO of the initial options merged with every
\* updateOptions argument, with overrides the merge of every updateSEO
\* argument.
C15_ManagerOverridesFromUpdatesOnly ==
  hook # NoObj =>
    managerSEO(hook) = useSEO(WithOverrides(MergedOptions, MergedUpdates))

\* C15 (amended): the exposed record is useSEO of the initial options
\* merged with every updateOptions argument; once updateSEO has been
\* called its overrides are the merge of every updateSEO argument (any
\* overrides of the options are dropped), and before the first updateSEO
\* call they are the overrides of the merged options.
C15_ManagerState ==
  hook # NoObj =>
    /\ managerSEO(hook) =
         IF UpdateSEOCalled THEN useSEO(WithOverrides(MergedOptions, MergedUpdates))
         ELSE useSEO(MergedOptions)
    /\ LET exposed == managerSEO(hook)
       IN exposed.ok /\ UpdateSEOCalled =>
            /\ \A k \in DOMAIN MergedUpdates : exposed.value.seo[k] = MergedUpdates[k]
            /\ \A k \in DOMAIN exposed.value.seo \ DOMAIN MergedUpdates :
                 exposed.value.seo[k] = useSEO(WithOverrides(MergedOptions, <<>>)).value.seo[k]

\* updateSEO({title}), then updateOptions with a page: the title override
\* is still in force and the description is the one derived for the page
C15_Witness ==
  /\ hook # NoObj /\ Len(hook.calls) = 2
  /\ hook.calls[1].fn = "updateSEO" /\ hook.calls[1].arg = [title |-> <<"O", "&">>]
  /\ hook.calls[2].fn = "updateOptions" /\ "page" \in DOMAIN hook.calls[2].arg
  /\ managerSEO(hook).ok
  /\ managerSEO(hook).value.title = <<"O", "&">>
  /\ managerSEO(hook).value.description = <<"e">>

----------------------------------------------------------------------------
(* Properties of the lazy loader *)

KnownKeys == {"react", "nextjs", "sveltekit"}

SomeKeyUnknown == \E i \in 1..Len(loader.frameworks) : loader.frameworks[i] \notin KnownKeys

\* C16: the promise of lazyLoadFrameworkUtils for a key other than 'react',
\* 'nextjs' and 'sveltekit' is rejected with an error whose message names
\* the key and never carries utilities, and the promise for a known key is
\* never rejected; preloadFrameworkUtils is rejected only when some key of
\* the list is unknown, fulfilled only when all are known, and while it is
\* pending a step towards its outcome is possible.
C16_UnknownFrameworkRejects ==
  loader # NoObj =>
    /\ \A i \in 1..Len(loader.frameworks) :
         LET key == loader.frameworks[i]
             promise == loader.promises[i]
         IN IF key \in KnownKeys
            THEN /\ promise.state \in {"pending", "fulfilled"}
                 /\ promise.state = "fulfilled" => promise.value # {}
            ELSE /\ promise.state = "rejected"
                 /\ promise.reason = <<"Unknown framework: ", key>>
                 /\ "value" \notin DOMAIN promise
    /\ loader.all.state = "rejected" => SomeKeyUnknown
    /\ loader.all.state = "fulfilled" => ~SomeKeyUnknown
    /\ SomeKeyUnknown /\ loader.all.state # "rejected" => ENABLED SettlePreload
    /\ ~SomeKeyUnknown /\ loader.all.state # "fulfilled" => ENABLED (ResolveImport \/ SettlePreload)

\* a list of a known and an unknown key: the import has loaded and the
\* preload is rejected with the unknown key in the message
C16_Witness ==
  /\ loader # NoObj
  /\ loader.frameworks = <<"react", "vue">>
  /\ loader.promises[1].state = "fulfilled"
  /\ loader.all.state = "rejected"
  /\ loader.all.reason = <<"Unknown framework: ", "vue">>

----------------------------------------------------------------------------
(* Properties of the Payload afterRead hook *)

\* the site title and description of the request, undefined when any link
\* of payload.config.globals.site is missing
RequestSite(k) ==
  LET payload == args.req.payload
  IN IF payload.config # NoObj /\ payload.config.globals # NoObj
        /\ payload.config.globals.site # NoObj
     THEN payload.config.globals.site[k] ELSE undefined

ExpectedComputedSEO ==
  generateSEO(args.doc.fields,
              [siteName |-> FirstNonEmpty(<<RequestSite("title"), <<"Site">>>>),
               siteDescription |-> FirstNonEmpty(<<RequestSite("description"), <<"A website">>>>)],
              "page",
              FirstNonEmpty(<<args.env.SITE_URL, <<"https://example.com">>>>),
              NoCrumbs)

\* C17: afterRead never lets an error out; a failure of the computation is
\* logged and leaves the doc as it was; on success the doc differs only by
\* computedSEO = generateSEO(doc, site settings, 'page', SITE_URL or
\* 'https://example.com'); with doc or req.payload absent the doc is as it
\* was.
C17_AfterReadNeverThrows ==
  op = "afterRead" =>
    /\ ~ret.thrown
    /\ ret.logged => ret.doc = args.doc
    /\ args.doc.kind = "absent" \/ args.req.payload = NoObj =>
         ret.doc = args.doc /\ ~ret.logged
    /\ args.doc.kind # "absent" /\ args.req.payload # NoObj /\ ~ret.logged =>
         /\ DOMAIN ret.doc.fields = DOMAIN args.doc.fields \cup {"computedSEO"}
         /\ \A k \in DOMAIN args.doc.fields : ret.doc.fields[k] = args.doc.fields[k]
         /\ ret.doc.fields.computedSEO = ExpectedComputedSEO
         /\ ret.doc.kind = args.doc.kind /\ ret.doc.frozen = args.doc.frozen
    /\ args.doc.kind = "primitive" /\ args.req.payload # NoObj => ret.logged

\* a doc that is not an object, with a payload: the failure is logged
C17_Witness ==
  /\ op = "afterRead"
  /\ args.doc.kind = "primitive" /\ args.req.payload # NoObj
  /\ ret.logged /\ ~ret.thrown /\ ret.doc = args.doc

----------------------------------------------------------------------------
(* Properties of the Article and Product objects *)

\* a JSON member that is a string, or absent
JText(v) == IF v.t = "str" THEN v.s ELSE undefined

\* C19: the Article object of a page has headline = page.title, url =
\* baseUrl + '/pages/' + slug, datePublished = publishedDate when non-empty
\* and createdAt otherwise, dateModified = updatedAt, the description of
\* the chain seo.description, excerpt, siteDescription, 'A modern website';
\* keywords iff seo.keywords is non-empty, image iff featuredImage is
\* present.
C19_ArticleFields ==
  op = "generateStructuredData" /\ PageSupplied =>
    LET parsed == JSONparse(ret)
        article == parsed.v.a[2]
        page == args.page
        pageSeo(k) == IF page.seo # NoObj THEN page.seo[k] ELSE undefined
    IN /\ parsed.ok
       /\ Field(article, <<"@type">>) = JStr(<<"Article">>)
       /\ Field(article, <<"headline">>) = JStr(page.title)
       /\ Field(article, <<"url">>) = JStr(args.baseUrl \o <<"/pages/">> \o page.slug)
       /\ Field(article, <<"datePublished">>) =
            JStr(IF page.publishedDate \notin {undefined, <<>>}
                 THEN page.publishedDate ELSE page.createdAt)
       /\ Field(article, <<"dateModified">>) = JStr(page.updatedAt)
       /\ Field(article, <<"description">>) =
            JStr(FirstNonEmpty(<<pageSeo("description"), page.excerpt,
                                 args.siteSettings.siteDescription, <<"A modern website">>>>))
       /\ IF pageSeo("keywords") \notin {undefined, <<>>}
          THEN Field(article, <<"keywords">>) = JStr(pageSeo("keywords"))
          ELSE Field(article, <<"keywords">>) = JUndef
       /\ IF page.featuredImage # NoObj
          THEN Field(Field(article, <<"image">>), <<"url">>) = JStr(page.featuredImage.url)
          ELSE Field(article, <<"image">>) = JUndef

\* a page with an empty publishedDate, an empty seo.description and no
\* excerpt, on a site without description
C19_Witness ==
  /\ op = "generateStructuredData" /\ PageSupplied
  /\ args.page.publishedDate = <<>>
  /\ args.page.seo # NoObj /\ args.page.seo.description = <<>>
  /\ args.page.excerpt = undefined
  /\ args.siteSettings.siteDescription = undefined
  /\ args.baseUrl = <<"b">>
  /\ LET article == JSONparse(ret).v.a[2]
     IN /\ Field(article, <<"datePublished">>) = JStr(<<"2024-01-01">>)
        /\ Field(article, <<"description">>) = JStr(<<"A modern website">>)
        /\ Field(article, <<"keywords">>) = JUndef

PricePresent == "price" \in DOMAIN args.product
CurrencyPresent == "currency" \in DOMAIN args.product /\ args.product.currency # <<>>

\* C20: the product object has an offers block of @type 'Offer' iff price
\* (any number, 0 included) and currency are both present, with the given
\* price and priceCurrency and with availability the given one or
\* 'https://schema.org/InStock'; image is included iff product.image is
\* present.
C20_OffersIffPriceAndCurrency ==
  op = "generateProductSchema" =>
    LET offers == Field(ret, "offers")
        product == args.product
    IN /\ IF PricePresent /\ CurrencyPresent
          THEN /\ offers # JUndef
               /\ Field(offers, "@type") = JStr(<<"Offer">>)
               /\ Field(offers, "price") = JNum(product.price)
               /\ Field(offers, "priceCurrency") = JStr(product.currency)
               /\ Field(offers, "availability") =
                    JStr(IF "availability" \in DOMAIN product /\ product.availability # <<>>
                         THEN product.availability
                         ELSE <<"https://schema.org/InStock">>)
          ELSE offers = JUndef
       /\ Field(ret, "image") =
            (IF "image" \in DOMAIN product /\ product.image # <<>>
             THEN JStr(product.image) ELSE JUndef)

----------------------------------------------------------------------------
(* Properties of the sitemap dates *)

\* the date strings that denote a date: a calendar date, or a calendar date
\* with the time of day 00:00:00.000 UTC
IsCalendarDate(s) == Len(s) = 2 /\ s[1] = "2024-01-0"
IsTimestamp(s) == Len(s) = 3 /\ s[1] = "2024-01-0" /\ s[3] = "T00:00:00.000Z"

\* the ISO-8601 timestamp of a date string
IsoForm(s) == IF IsCalendarDate(s) THEN s \o <<"T00:00:00.000Z">> ELSE s

LastmodSource(page) == FirstNonEmpty(<<page.updatedAt, page.publishedDate, args.now>>)

\* C21: in the list returned by generateSitemapUrls the lastmod of a page
\* entry is the ISO form of updatedAt when non-empty, else of publishedDate
\* when non-empty, else the current time of the call, which is also the
\* lastmod of the homepage entry.
C21_LastmodChain ==
  op = "generateSitemapUrls" /\ ret.ok =>
    LET entries == PageEntries(ret.value)
        eligible == EligiblePages
    IN /\ Len(entries) = Len(eligible)
       /\ \A i \in 1..Len(eligible) :
            /\ entries[i].lastmod = IsoForm(LastmodSource(eligible[i]))
            /\ IsTimestamp(entries[i].lastmod)
       /\ HomepageExpected => ret.value[1].lastmod = args.now

\* a page dated by updatedAt, one by publishedDate and none by the clock
C21_Witness ==
  /\ op = "generateSitemapUrls" /\ ret.ok
  /\ HomepageExpected
  /\ Len(args.pages) = 2
  /\ args.pages[1].slug = <<"v">> /\ args.pages[2].slug = <<"t", "&">>
  /\ ret.value[1].lastmod = args.now
  /\ ret.value[2].lastmod = <<"2024-01-0", "5", "T00:00:00.000Z">>
  /\ ret.value[3].lastmod = <<"2024-01-0", "3", "T00:00:00.000Z">>

\* C22: generateSitemapUrls has no failure outcome: with a malformed
\* updatedAt or publishedDate on an eligible page the call still returns
\* one entry per eligible page.
C22_NoFailureOutcome ==
  op = "generateSitemapUrls" =>
    /\ ret.ok
    /\ Len(PageEntries(ret.value)) = Len(EligiblePages)

----------------------------------------------------------------------------
(* Properties of the Payload beforeChange hook *)

NonEmpty(v) == v \notin {undefined, <<>>}

\* a field of a record, or of its seo block, undefined when missing
FieldOf(record, k) == IF k \in DOMAIN record THEN record[k] ELSE undefined
SeoOf(record, k) ==
  IF "seo" \in DOMAIN record /\ k \in DOMAIN record.seo THEN record.seo[k] ELSE undefined

AlphanumericChars ==
  {"a", "b", "c", "d", "e", "f", "g", "h", "i", "j", "k", "l", "m", "n", "o", "p", "q",
   "r", "s", "t", "u", "v", "w", "x", "y", "z", "0", "1", "2", "3", "4", "5", "6", "7",
   "8", "9"}

\* the words of a title: its maximal runs of characters other than
\* whitespace, in order, each reduced to its lower-cased alphanumeric
\* characters
WordsOf(title) ==
  LET blank(i) == i < 1 \/ i > Len(title) \/ title[i] \in {" ", "\t", "\n"}
      starts == {i \in 1..Len(title) : ~blank(i) /\ blank(i - 1)}
      end(i) == CHOOSE j \in i..Len(title) : blank(j + 1) /\ \A k \in i..j : ~blank(k)
      nth(n) == CHOOSE i \in starts : Cardinality({x \in starts : x < i}) = n - 1
  IN [n \in 1..Cardinality(starts) |->
        SelectSeq(toLowerCase(SubSeq(title, nth(n), end(nth(n)))),
                  LAMBDA c : c \in AlphanumericChars)]

\* the first (at most) five words longer than three characters
KeywordsOf(title) ==
  LET long == SelectSeq(WordsOf(title), LAMBDA w : Len(w) > 3)
  IN [n \in 1..(IF Len(long) > 5 THEN 5 ELSE Len(long)) |-> long[n]]

\* text cut to its first n characters
CutTo(text, n) == [i \in 1..(IF Len(text) > n THEN n ELSE Len(text)) |-> text[i]]

FirstRun == op = "beforeChange" /\ args.first = NoObj

SiteTitleOrSite ==
  IF args.req.payload.config = NoObj THEN <<"Site">>
  ELSE args.req.payload.config.globals.site.title

C30_Idempotent ==
  op = "beforeChange" /\ args.first # NoObj => ret = args.data

\* the second run on a record whose title, description and keywords the
\* first run filled
C30_Witness ==
  /\ op = "beforeChange" /\ args.first # NoObj
  /\ "seo" \notin DOMAIN args.first
  /\ "excerpt" \in DOMAIN args.first /\ Len(args.first.excerpt) = 161
  /\ "keywords" \in DOMAIN args.data.seo /\ "title" \in DOMAIN args.data.seo
  /\ Len(args.data.seo.description) = 160
  /\ ret = args.data


----------------------------------------------------------------------------
(* Properties of createSEOStore *)

\* C24: after createSEOStore, set and update the getters return the fields
\* of the current record: set(r) makes it r, update(p) changes exactly the
\* keys of p; no object the caller passed to createSEOStore or to set is
\* mutated.
C24_StoreRecord ==
  store # NoObj =>
    /\ op = "createSEOStore" =>
         \A k \in StoreGetters : ret[k] = FieldOf(args.initialSEO, k)
    /\ op = "set" =>
         \A k \in StoreGetters : ret[k] = FieldOf(args.newSEO, k)
    /\ op = "update" =>
         \A k \in StoreGetters :
           ret[k] = IF k \in DOMAIN args.updates THEN args.updates[k]
                    ELSE FieldOf(args.before.heap[args.before.seo], k)
    /\ \A i \in 1..Len(store.passed) :
         store.heap[store.passed[i].ref] = store.passed[i].value

\* an update, after a set, that changes the title, while the object passed
\* to set keeps its own title
C24_Witness ==
  /\ store # NoObj /\ op = "update"
  /\ Len(store.passed) = 2
  /\ "title" \in DOMAIN args.updates
  /\ ret.title = <<"C">>
  /\ store.heap[store.passed[2].ref].title # <<"C">>
  /\ args.before.seo = store.passed[2].ref


----------------------------------------------------------------------------
(* Properties of generateSEO without a base URL and without a page *)

\* C25: generateSEO called without baseUrl returns an undefined url for
\* type 'home' and type 'page' alike, and generateMetaTags of the result
\* has no og:url tag.
C25_NoUrlWithoutBase ==
  op = "generateSEO" /\ args.baseUrl = undefined =>
    /\ ret.url = undefined
    /\ Count(OpensOf(TagsOf(generateMetaTags(ret))), "<meta property=\"og:url\" content=\"") = 0

\* C26: the structuredData of generateSEO holds an Article only when data
\* is a Page record; with a SiteSettings record as data there is none,
\* whatever the type.
C26_ArticleOnlyForPage ==
  op = "generateSEO" /\ "siteName" \in DOMAIN args.data /\ ret.structuredData # undefined =>
    LET elements == JSONparse(ret.structuredData).v.a
    IN \A i \in 1..Len(elements) : TypeOfElement(elements[i]) # JStr(<<"Article">>)


----------------------------------------------------------------------------
(* Properties across generateSEO, the Article schema and the sitemap *)

BothCalled == op = "generateSEO, generateSitemapUrls"

\* C27: for a published page with a non-empty slug and seo.noIndex not
\* true, and a truthy baseUrl, the url of generateSEO, the url and the
\* mainEntityOfPage @id of the Article of its structuredData, and the loc
\* of the page's sitemap entry are the same string.
C27_OneCanonicalUrl ==
  BothCalled /\ IsEligible(args.page) /\ ret.urls.ok =>
    LET article == JSONparse(ret.seo.structuredData).v.a[2]
        entries == SelectSeq(ret.urls.value, LAMBDA u : u.loc # args.baseUrl)
    IN /\ Field(article, <<"@type">>) = JStr(<<"Article">>)
       /\ Field(article, <<"url">>) = JStr(ret.seo.url)
       /\ Field(Field(article, <<"mainEntityOfPage">>), <<"@id">>) = JStr(ret.seo.url)
       /\ Len(ret.urls.value) = 2
       /\ Len(entries) = 1
       /\ entries[1].loc = ret.seo.url

\* a slug and a base URL with characters that JSON and XML escape
C27_Witness ==
  /\ BothCalled /\ IsEligible(args.page) /\ ret.urls.ok
  /\ args.page.slug = <<"\"", "&">>
  /\ args.baseUrl = <<"h", ":", "/", "/", "x", "&", "/">>
  /\ ret.seo.url = <<"h", ":", "/", "/", "x", "&", "/", "/pages/", "\"", "&">>
  /\ ret.urls.value[2].loc = ret.seo.url


----------------------------------------------------------------------------
(* Properties of SEOHead against generateMetaTags *)

MetaNames ==
  {"description", "keywords", "og:title", "og:description", "og:type", "og:url",
   "og:image", "twitter:card", "twitter:title", "twitter:description", "twitter:image"}

\* the head entry a browser reads from a tag of generateMetaTags: its key
\* (title, name or property), its name and its unescaped value
EntryOfTag(tag) ==
  IF TagOpen(tag) = "<title>"
  THEN [key |-> "title", name |-> "", content |-> XmlUnescape(TagContent(tag))]
  ELSE LET e == CHOOSE x \in [key : {"name", "property"}, name : MetaNames] :
                  TagOpen(tag) = "<meta " \o x.key \o "=\"" \o x.name \o "\" content=\""
       IN [key |-> e.key, name |-> e.name, content |-> XmlUnescape(TagContent(tag))]

EntriesOf(out) == {EntryOfTag(tag) : tag \in {TagsOf(out)[i] : i \in 1..Len(TagsOf(out))}}

\* C28: SEOHead and generateMetaTags render the same head entries for
\* every SEOData, the structured-data script of SEOHead aside: the same
\* names under the same conditions with the same values.
C28_SameHeadEntries ==
  op = "SEOHead" =>
    {ret[i] : i \in {j \in 1..Len(ret) : ret[j].key # "script"}}
      = EntriesOf(generateMetaTags(args.seo))


----------------------------------------------------------------------------
(* Properties of generateReactRouterMeta *)

\* the SEOData field a head entry of the given name shows
FieldShown(seo, name) ==
  CASE name \in {"", "og:title", "twitter:title"} -> seo.title
    [] name \in {"description", "og:description", "twitter:description"} -> seo.description
    [] name = "keywords" -> seo.keywords
    [] name = "og:type" -> IF seo.type \in {undefined, <<>>} THEN <<"website">> ELSE seo.type
    [] name = "og:url" -> seo.url
    [] name \in {"og:image", "twitter:image"} -> seo.image
    [] name = "twitter:card" -> <<"summary_large_image">>

\* C29: generateReactRouterMeta returns one descriptor per tag of
\* generateMetaTags for the same SEOData, in the same order, og:* keyed by
\* 'property' and the others by 'name', each title or content equal to the
\* SEOData field value, values with & < > " ' included.
C29_DescriptorPerTag ==
  op = "generateReactRouterMeta" =>
    LET seo == generateSEO(args.page, args.siteSettings,
                           IF args.type = NoType THEN "page" ELSE args.type,
                           args.baseUrl, NoCrumbs)
        tags == TagsOf(generateMetaTags(seo))
    IN /\ Len(ret) = Len(tags)
       /\ \A i \in 1..Len(tags) :
            LET entry == EntryOfTag(tags[i])
            IN /\ ret[i].name = entry.name
               /\ ret[i].key = (IF entry.name = "" THEN "title"
                                ELSE IF entry.name \in {"og:title", "og:description", "og:type",
                                                        "og:url", "og:image"}
                                THEN "property" ELSE "name")
               /\ ret[i].content = FieldShown(seo, entry.name)

====
